---------------------------- MODULE Spec2Model ----------------------------
(***************************************************************************)
(* A model of gopenpgp's streaming composition layer:                      *)
(*   - helper: explicit-verify decryption (DecryptExplicitVerify,          *)
(*     DecryptSessionKeyExplicitVerify);                                   *)
(*   - crypto: the detached-signature encryption composition               *)
(*     (encryptSignDetachedStreamToRecipients and its writer);             *)
(*   - crypto: detached signature verification (verifySignature).          *)
(* Each part has its own next-state relation and specification over the    *)
(* shared variable tuple; the variables of the other parts stay at Init.   *)
(***************************************************************************)
EXTENDS Integers, Sequences, FiniteSets, TLC

VARIABLES
    \* ---- explicit-verify decryption (package helper)
    xpc,        \* position of the entry point: "idle", "decrypted", "returned"
    xentry,     \* which entry point runs: "keyring" or "sessionkey"
    xmsg,       \* message returned by the underlying decrypt+verify call
    xerr,       \* error returned by the underlying decrypt+verify call
    xret,       \* what the entry point returned: [res, err]
    \* ---- detached signature verification (verifySignature)
    vpc,        \* position in verifySignature: "idle", "line88", "line103", "returned"
    verifyTime, \* the verifyTime argument
    origText,   \* the plaintext behind the origText reader
    textPos,    \* read position of the origText reader
    sigPos,     \* read position of signatureReader
    configTime, \* what config.Time returns, in Unix seconds
    signer,     \* local signer
    verr,       \* local err
    attempts,   \* the calls of CheckArmoredDetachedSignature made so far
    vret,       \* what verifySignature returned: [ok, err]
    \* ---- detached-signature encryption composition (encryptionHandle)
    epc,        \* position in encryptSignDetachedStreamToRecipients and callee
    eh,         \* the encryptionHandle: its key material and signer fields
    eh0,        \* the handle as it was configured before the call
    sessionKeys,            \* the SessionKey objects, by identity
    keyPacketWriter,        \* the keyPacketWriter argument: nil or the key sink
    keySink,                \* bytes written to the dedicated key-packet sink
    dataSink,               \* bytes written to encryptedDataWriter
    sigSink,                \* bytes written to encryptedSignatureWriter
    generated,              \* the deferred Clear of lines 329-332 is registered
    signKeyRing,            \* local signKeyRing of line 278
    ptToCiphertextWriter,   \* pipeline encrypting the plaintext
    sigToCiphertextWriter,  \* pipeline encrypting the signature
    ptToEncSigWriter,       \* detached signing stage
    callErr,    \* err of the step that just ran
    eret,       \* what encryptSignDetachedStreamToRecipients returned
    written,    \* bytes of the Write calls that succeeded, in order
    nwrites,    \* number of Write calls made on the returned writer
    writeFailed,            \* some Write call returned an error
    closeLog,   \* stages closed so far, in the order they were closed
    closeRet,   \* what Close returned: "none" before the call
    failedOp,   \* the engine operation that failed in this call, "" if none
    \* ---- inline encryption (encryptStream, encryptStreamWithPassword,
    \*      encryptStreamWithSessionKey) and detached signing
    spc,        \* position of the operation: "idle", "returned"
    smode,      \* the operation that ran
    sh,         \* the encryptionHandle the operation ran on
    sKeySink,   \* bytes written to keyPacketWriter
    sDataSink,  \* bytes written to dataPacketWriter
    swriter,    \* the plainMessageWriter the operation built
    sret,       \* what the operation returned
    sfailedOp,  \* the engine operation that failed in this call, "" if none
    sentry,     \* for each Write, the stage of the chain it entered at
    swritten,   \* bytes of the Write calls that succeeded, in order
    snwrites,   \* number of Write calls made on the returned writer
    scloseLog,  \* stages closed so far, in the order they were closed
    scloseRet,  \* what Close returned: "none" before the call
    \* ---- profile (profile/profile.go)
    ppc,        \* "none" before the PGPHandle exists, "ready" after
    profile,    \* the Custom profile of the PGPHandle
    profile0,   \* the profile as it was when the handle was created
    pconfigs,   \* the packet.Config objects alive, by address
    pderived,   \* address of the Config a handle derived for a call, 0 if none
    plast,      \* the last projection called and the Config it returned
    pfirst,     \* the first projection call made on the profile and its result
    \* ---- two callers of encryptSignDetachedStreamWithSessionKey on one handle
    ieh,        \* the encryption handle the callers share
    ieh0,       \* the handle as the builder configured it
    ipc,        \* for each caller, the line it is at
    ilocal      \* for each caller, its locals: saved keyring, stages, err

xvars == <<xpc, xentry, xmsg, xerr, xret>>

vvars == <<vpc, verifyTime, origText, textPos, sigPos, configTime, signer, verr,
           attempts, vret>>

evars == <<epc, eh, eh0, sessionKeys, keyPacketWriter, keySink, dataSink, sigSink,
           generated, signKeyRing, ptToCiphertextWriter, sigToCiphertextWriter,
           ptToEncSigWriter, callErr, eret, written, nwrites, writeFailed,
           closeLog, closeRet, failedOp>>

svars == <<spc, smode, sh, sKeySink, sDataSink, swriter, sret, sfailedOp, sentry,
           swritten, snwrites, scloseLog, scloseRet>>

pvars == <<ppc, profile, profile0, pconfigs, pderived, plast, pfirst>>

ivars == <<ieh, ieh0, ipc, ilocal>>

vars == <<xvars, vvars, evars, svars, pvars, ivars>>

(***************************************************************************)
(* Bounds                                                                  *)
(***************************************************************************)
\* deepest chain of wrappers around an error returned by the engine
MaxWrapDepth == 2

\* most Write calls made on one returned writer
MaxWrites == 2

(***************************************************************************)
(* Go errors.  An error is its Unwrap chain, outermost layer first; the    *)
(* nil error is the empty chain.                                           *)
(***************************************************************************)
NilError == << >>

ErrLayer(kind, status, msg) == [kind |-> kind, status |-> status, msg |-> msg]

\* a crypto.SignatureVerificationError value with the given status
SignatureVerificationError(status) == ErrLayer("SignatureVerificationError", status, "")

\* the nil *crypto.SignatureVerificationError
NilSigErr == ErrLayer("nil", "", "")

\* the zero value &crypto.SignatureVerificationError{} that errors.As fills in
ZeroSigErr == ErrLayer("SignatureVerificationError", "", "")

\* statuses a signature verification error carries
SigStatuses == {"NotSigned", "NoVerifier", "Failed"}

\* failures of the engine that are not signature verification failures
OtherKinds == {"badKey", "corruptPacket", "wrongPassword"}

\* errors.Wrap(err, msg): a new outermost layer over err
Wrap(err, msg) == <<ErrLayer("wrap", "", msg)>> \o err

RECURSIVE WrapN(_, _)
WrapN(err, n) == IF n = 0 THEN err ELSE WrapN(Wrap(err, "engine"), n - 1)

\* errors.As(err, castedErr) with castedErr a *crypto.SignatureVerificationError:
\* walks the chain from the outermost layer and stops at the first layer whose
\* type is SignatureVerificationError, which it copies into the target.
RECURSIVE As(_, _)
As(err, target) ==
    IF err = NilError THEN [isType |-> FALSE, target |-> target]
    ELSE IF Head(err).kind = "SignatureVerificationError"
         THEN [isType |-> TRUE, target |-> Head(err)]
         ELSE As(Tail(err), target)

(***************************************************************************)
(* Plain messages and the result of the explicit-verify entry points.      *)
(***************************************************************************)
Plaintexts == {<<"a">>, <<"a", "b">>, <<"b">>}

NilMessage == [present |-> FALSE, data |-> << >>]

PlainMessage(data) == [present |-> TRUE, data |-> data]

\* the nil *ExplicitVerifyMessage
NilResult == [present |-> FALSE, Message |-> NilMessage,
              SignatureVerificationError |-> NilSigErr]

ExplicitVerifyMessage(message, sigErr) ==
    [present |-> TRUE, Message |-> message, SignatureVerificationError |-> sigErr]

NoReturn == [res |-> NilResult, err |-> NilError]

(***************************************************************************)
(* The underlying decrypt+verify call (KeyRing.Decrypt and                 *)
(* SessionKey.DecryptAndVerify): the pairs (message, err) it can return    *)
(* for a message whose plaintext is data.  Decryption failures return no   *)
(* message; a signature verification failure is reported together with     *)
(* the decrypted message.                                                  *)
(***************************************************************************)
DecryptOutcomes(data) ==
    {[message |-> PlainMessage(data), err |-> NilError]}
    \cup {[message |-> PlainMessage(data),
           err |-> WrapN(<<SignatureVerificationError(s)>>, n)] :
                s \in SigStatuses, n \in 0..MaxWrapDepth}
    \cup {[message |-> NilMessage, err |-> WrapN(<<ErrLayer(k, "", "")>>, n)] :
                k \in OtherKinds, n \in 0..MaxWrapDepth}

\* faulty variant: every error of the underlying call is a hard failure
extractAllHard(err) ==
    IF err # NilError
    THEN [sigErr |-> NilSigErr, err |-> Wrap(err, "gopenpgp: unable to decrypt message")]
    ELSE [sigErr |-> NilSigErr, err |-> NilError]

\* faulty variant: the result of errors.As is ignored, every error is reported as a
\* signature verification error
extractAllSoft(err) ==
    IF err # NilError
    THEN [sigErr |-> As(err, ZeroSigErr).target, err |-> NilError]
    ELSE [sigErr |-> NilSigErr, err |-> NilError]

extractExplicitSignatureVerificationError(err) ==
    IF err # NilError
    THEN LET castedErr == ZeroSigErr
             r == As(err, castedErr)
         IN  IF ~r.isType
             THEN [sigErr |-> NilSigErr,
                   err |-> Wrap(err, "gopenpgp: unable to decrypt message")]
             ELSE [sigErr |-> r.target, err |-> NilError]
    ELSE [sigErr |-> NilSigErr, err |-> NilError]

\* lines 26-33 and 46-53: shared tail of the two entry points
ExplicitVerifyReturn(message, err) ==
    LET e == extractExplicitSignatureVerificationError(err)
    IN  IF e.err # NilError
        THEN [res |-> NilResult, err |-> e.err]
        ELSE [res |-> ExplicitVerifyMessage(message, e.sigErr), err |-> NilError]

\* DecryptExplicitVerify, line 25: privateKeyRing.Decrypt(...)
DecryptExplicitVerifyCall ==
    /\ xpc = "idle"
    /\ \E data \in Plaintexts : \E o \in DecryptOutcomes(data) :
          /\ xmsg' = o.message
          /\ xerr' = o.err
    /\ xentry' = "keyring"
    /\ xpc' = "decrypted"
    /\ xret' = NoReturn
    /\ UNCHANGED <<vvars, evars, svars, pvars, ivars>>

\* DecryptSessionKeyExplicitVerify, line 45: sessionKey.DecryptAndVerify(...)
DecryptSessionKeyExplicitVerifyCall ==
    /\ xpc = "idle"
    /\ \E data \in Plaintexts : \E o \in DecryptOutcomes(data) :
          /\ xmsg' = o.message
          /\ xerr' = o.err
    /\ xentry' = "sessionkey"
    /\ xpc' = "decrypted"
    /\ xret' = NoReturn
    /\ UNCHANGED <<vvars, evars, svars, pvars, ivars>>

\* DecryptExplicitVerify, lines 26-33
DecryptExplicitVerifyReturn ==
    /\ xpc = "decrypted"
    /\ xentry = "keyring"
    /\ xret' = ExplicitVerifyReturn(xmsg, xerr)
    /\ xpc' = "returned"
    /\ UNCHANGED <<xentry, xmsg, xerr>>
    /\ UNCHANGED <<vvars, evars, svars, pvars, ivars>>

\* DecryptSessionKeyExplicitVerify, lines 46-53
DecryptSessionKeyExplicitVerifyReturn ==
    /\ xpc = "decrypted"
    /\ xentry = "sessionkey"
    /\ xret' = ExplicitVerifyReturn(xmsg, xerr)
    /\ xpc' = "returned"
    /\ UNCHANGED <<xentry, xmsg, xerr>>
    /\ UNCHANGED <<vvars, evars, svars, pvars, ivars>>

\* the caller takes the result; the next call may start
ExplicitVerifyDone ==
    /\ xpc = "returned"
    /\ xpc' = "idle"
    /\ xentry' = "none"
    /\ xmsg' = NilMessage
    /\ xerr' = NilError
    /\ xret' = NoReturn
    /\ UNCHANGED <<vvars, evars, svars, pvars, ivars>>

InitExplicit ==
    /\ xpc = "idle"
    /\ xentry = "none"
    /\ xmsg = NilMessage
    /\ xerr = NilError
    /\ xret = NoReturn

NextExplicit ==
    \/ DecryptExplicitVerifyCall
    \/ DecryptSessionKeyExplicitVerifyCall
    \/ DecryptExplicitVerifyReturn
    \/ DecryptSessionKeyExplicitVerifyReturn
    \/ ExplicitVerifyDone

(***************************************************************************)
(* Claims about explicit-verify decryption                                 *)
(***************************************************************************)
\* the error is of the signature-verification kind: some layer of its chain
\* is a SignatureVerificationError
IsSigVerificationKind(err) ==
    \E i \in 1..Len(err) : err[i].kind = "SignatureVerificationError"

\* the first SignatureVerificationError layer of the chain
FirstSigLayer(err) ==
    err[CHOOSE i \in 1..Len(err) :
            /\ err[i].kind = "SignatureVerificationError"
            /\ \A j \in 1..(i - 1) : err[j].kind # "SignatureVerificationError"]

\* C1: for both explicit-verify entry points, when the underlying call fails
\* with an error of the signature-verification kind the operation returns a
\* nil hard error and a result that carries that verification error and the
\* decrypted message; in every returned result a non-nil verification error
\* comes with a present plaintext; when the underlying call reports no error
\* the result carries the plaintext and a nil verification error.
C1_SigFailureKeepsPlaintext ==
    xpc = "returned" =>
        /\ IsSigVerificationKind(xerr) =>
              /\ xret.err = NilError
              /\ xret.res.present
              /\ xret.res.SignatureVerificationError = FirstSigLayer(xerr)
              /\ xret.res.SignatureVerificationError # NilSigErr
              /\ xret.res.Message = xmsg
              /\ xret.res.Message.present
        /\ (xret.res.present /\ xret.res.SignatureVerificationError # NilSigErr) =>
              xret.res.Message.present
        /\ xerr = NilError =>
              /\ xret.err = NilError
              /\ xret.res.present
              /\ xret.res.Message = xmsg
              /\ xret.res.Message.present
              /\ xret.res.SignatureVerificationError = NilSigErr

\* a wrapped signature verification failure was returned as data by the
\* session-key entry point
C1_Witness ==
    /\ xpc = "returned"
    /\ xentry = "sessionkey"
    /\ Len(xerr) = 2
    /\ IsSigVerificationKind(xerr)
    /\ xret.res.present
    /\ xret.res.SignatureVerificationError.status = "NoVerifier"
    /\ xret.res.Message.data = <<"a", "b">>

\* C2: for both entry points, when the underlying call fails with an error
\* that is not of the signature-verification kind, the operation returns a
\* hard error and no result, and the returned error is not of the
\* signature-verification kind either.
C2_OtherFailureIsHard ==
    xpc = "returned" =>
        ((xerr # NilError /\ ~IsSigVerificationKind(xerr)) =>
              /\ xret.err # NilError
              /\ xret.res = NilResult
              /\ ~IsSigVerificationKind(xret.err)
              /\ Tail(xret.err) = xerr)

\* a wrong-password failure came back as a hard error from the keyring entry
\* point
C2_Witness ==
    /\ xpc = "returned"
    /\ xentry = "keyring"
    /\ xerr = <<ErrLayer("wrongPassword", "", "")>>
    /\ xret.err # NilError
    /\ ~xret.res.present

(***************************************************************************)
(* Detached signature verification: verifySignature and its two callers.   *)
(***************************************************************************)
\* value of internal.CreationTimeOffset, in seconds (two days)
CreationTimeOffset == 172800

\* verification times a caller passes (int64 Unix seconds; 0 disables the
\* time check)
VerifyTimes == {-1, 0, 1, 1500000000}

\* plaintexts handed to the verify entry points (TrimNewlines may leave "")
OrigTexts == Plaintexts \cup {<< >>}

\* the armored signature string behind signatureReader
ArmoredSignature == <<"BEGIN PGP SIGNATURE", "packet", "END PGP SIGNATURE">>

\* the nil *openpgp.Entity and the entities of the keyring
NilEntity == "nil"

Entities == {"alice"}

\* errors of CheckArmoredDetachedSignature
ErrNil == "nil"

ErrSignatureExpired == "ErrSignatureExpired"

EngineErrors == {ErrNil, ErrSignatureExpired, "ErrUnknownIssuer"}

ErrSignerEmpty == "signer is empty"

\* what one call of openpgp.CheckArmoredDetachedSignature can return
CheckOutcomes ==
    [signer : Entities \cup {NilEntity}, err : EngineErrors]

NoVerifyReturn == [ok |-> FALSE, err |-> "none"]

\* lines 74-83: the time the first attempt is checked at
InitialConfigTime(t) ==
    IF t = 0 THEN 0 ELSE t + CreationTimeOffset

\* faulty variant: the expired verdict is never looked at
ExpiredNeverHandled(e, s) == FALSE

\* line 88
ExpiredWithSigner(e, s) == e = ErrSignatureExpired /\ s # NilEntity

\* line 89
RetryWithVerifyTime(t) == t > 0

\* lines 92-94
RetryConfigTime(t) == t

\* faulty variant: the check of lines 106-108 is lost
VerifyResultNoSignerCheck(s, e) ==
    IF e # ErrNil THEN [ok |-> FALSE, err |-> e]
    ELSE [ok |-> TRUE, err |-> ErrNil]

\* lines 103-113
VerifyResult(s, e) ==
    IF e # ErrNil THEN [ok |-> FALSE, err |-> e]
    ELSE IF s = NilEntity THEN [ok |-> FALSE, err |-> ErrSignerEmpty]
    ELSE [ok |-> TRUE, err |-> ErrNil]

\* one call of CheckArmoredDetachedSignature as the model records it
Attempt(t, o, tp, sp) ==
    [time |-> t, signer |-> o.signer, err |-> o.err, textPos |-> tp, sigPos |-> sp]

\* VerifyTextSignDetachedBinKey / VerifyBinSignDetachedBinKey build the
\* origText reader and call verifySignature, which runs lines 74-86: the
\* first attempt
VerifySignatureFirstAttempt ==
    /\ vpc = "idle"
    /\ \E t \in VerifyTimes, text \in OrigTexts, o \in CheckOutcomes :
          /\ verifyTime' = t
          /\ origText' = text
          /\ configTime' = InitialConfigTime(t)
          /\ attempts' = <<Attempt(InitialConfigTime(t), o, 0, 0)>>
          /\ signer' = o.signer
          /\ verr' = o.err
          /\ textPos' = Len(text)
    /\ sigPos' = Len(ArmoredSignature)
    /\ vret' = NoVerifyReturn
    /\ vpc' = "line88"
    /\ UNCHANGED <<xvars, evars, svars, pvars, ivars>>

\* lines 88-97: expired with a signer and a verification time: retry
VerifySignatureRetry ==
    /\ vpc = "line88"
    /\ ExpiredWithSigner(verr, signer)
    /\ RetryWithVerifyTime(verifyTime)
    /\ configTime' = RetryConfigTime(verifyTime)
    /\ \E o \in CheckOutcomes :
          \* signatureReader.Seek(0, io.SeekStart); origText is read from where
          \* the first attempt left it
          /\ attempts' = Append(attempts,
                                Attempt(RetryConfigTime(verifyTime), o, textPos, 0))
          /\ signer' = o.signer
          /\ verr' = o.err
    /\ textPos' = Len(origText)
    /\ sigPos' = Len(ArmoredSignature)
    /\ vpc' = "line103"
    /\ UNCHANGED <<verifyTime, origText, vret>>
    /\ UNCHANGED <<xvars, evars, svars, pvars, ivars>>

\* lines 88, 98-101: expired with a signer and no retry: the verdict is dropped
VerifySignatureTimeCheckDisabled ==
    /\ vpc = "line88"
    /\ ExpiredWithSigner(verr, signer)
    /\ ~RetryWithVerifyTime(verifyTime)
    /\ verr' = ErrNil
    /\ vpc' = "line103"
    /\ UNCHANGED <<verifyTime, origText, textPos, sigPos, configTime, signer,
                   attempts, vret>>
    /\ UNCHANGED <<xvars, evars, svars, pvars, ivars>>

\* line 88, condition false
VerifySignatureNoExpiry ==
    /\ vpc = "line88"
    /\ ~ExpiredWithSigner(verr, signer)
    /\ vpc' = "line103"
    /\ UNCHANGED <<verifyTime, origText, textPos, sigPos, configTime, signer,
                   verr, attempts, vret>>
    /\ UNCHANGED <<xvars, evars, svars, pvars, ivars>>

\* lines 103-113
VerifySignatureReturn ==
    /\ vpc = "line103"
    /\ vret' = VerifyResult(signer, verr)
    /\ vpc' = "returned"
    /\ UNCHANGED <<verifyTime, origText, textPos, sigPos, configTime, signer,
                   verr, attempts>>
    /\ UNCHANGED <<xvars, evars, svars, pvars, ivars>>

InitVerify ==
    /\ vpc = "idle"
    /\ verifyTime = 0
    /\ origText = << >>
    /\ textPos = 0
    /\ sigPos = 0
    /\ configTime = 0
    /\ signer = NilEntity
    /\ verr = ErrNil
    /\ attempts = << >>
    /\ vret = NoVerifyReturn

\* the caller takes the result; the next verification may start
VerifyDone ==
    /\ vpc = "returned"
    /\ vpc' = "idle"
    /\ verifyTime' = 0
    /\ origText' = << >>
    /\ textPos' = 0
    /\ sigPos' = 0
    /\ configTime' = 0
    /\ signer' = NilEntity
    /\ verr' = ErrNil
    /\ attempts' = << >>
    /\ vret' = NoVerifyReturn
    /\ UNCHANGED <<xvars, evars, svars, pvars, ivars>>

NextVerify ==
    \/ VerifySignatureFirstAttempt
    \/ VerifySignatureRetry
    \/ VerifySignatureTimeCheckDisabled
    \/ VerifySignatureNoExpiry
    \/ VerifySignatureReturn
    \/ VerifyDone

(***************************************************************************)
(* Claims about detached verification                                      *)
(***************************************************************************)
\* what an attempt's verdict amounts to when it is the operation's outcome
OutcomeOf(a) ==
    IF a.err # ErrNil THEN [ok |-> FALSE, err |-> a.err]
    ELSE IF a.signer = NilEntity THEN [ok |-> FALSE, err |-> ErrSignerEmpty]
    ELSE [ok |-> TRUE, err |-> ErrNil]

ExpiredSignerIdentified(a) == a.err = ErrSignatureExpired /\ a.signer # NilEntity

\* C9: with a verification time supplied, the first attempt of verifySignature
\* uses the verification time plus the creation-time offset; if that attempt
\* reports expired while a signer was identified and the verification time is
\* nonzero, the check is retried exactly once at the literal verification
\* time and the retry's outcome is the operation's outcome; there are never
\* more than two attempts.
C9_RetryOnceWhenNonzero ==
    vpc = "returned" =>
        /\ Len(attempts) \in {1, 2}
        /\ verifyTime # 0 => attempts[1].time = verifyTime + CreationTimeOffset
        /\ (ExpiredSignerIdentified(attempts[1]) /\ verifyTime # 0) =>
              /\ Len(attempts) = 2
              /\ attempts[2].time = verifyTime
              /\ vret = OutcomeOf(attempts[2])
        /\ Len(attempts) = 2 =>
              (ExpiredSignerIdentified(attempts[1]) /\ verifyTime # 0)

\* C10: with verification time 0, whatever the single attempt reports,
\* verifySignature does not return the signature-expired error and an
\* expired verdict is treated as success.
C10_ZeroTimeNeverExpired ==
    (vpc = "returned" /\ verifyTime = 0) =>
        /\ Len(attempts) = 1
        /\ vret.err # ErrSignatureExpired
        /\ attempts[1].err = ErrSignatureExpired => vret = [ok |-> TRUE, err |-> ErrNil]

\* C10 (amended): with verification time 0 there is a single attempt, at
\* time 0; when it identifies a signer, verifySignature does not return the
\* signature-expired error and an expired verdict is treated as success; the
\* signature-expired error is returned exactly when the attempt reports
\* expired without identifying a signer.
C10_ZeroTimeNeverExpiredWithSigner ==
    (vpc = "returned" /\ verifyTime = 0) =>
        /\ Len(attempts) = 1
        /\ attempts[1].time = 0
        /\ attempts[1].signer # NilEntity =>
              /\ vret.err # ErrSignatureExpired
              /\ attempts[1].err = ErrSignatureExpired =>
                    vret = [ok |-> TRUE, err |-> ErrNil]
        /\ vret.err = ErrSignatureExpired <=>
              (attempts[1].err = ErrSignatureExpired /\ attempts[1].signer = NilEntity)

\* an expired verdict with a signer at verification time 0 came back as success
C10_Witness ==
    /\ vpc = "returned"
    /\ verifyTime = 0
    /\ attempts[1].err = ErrSignatureExpired
    /\ attempts[1].signer = "alice"
    /\ vret.ok

\* the last call of CheckArmoredDetachedSignature that was made
LastAttempt == attempts[Len(attempts)]

\* C11: verifySignature returns (true, no error) only if the last
\* verification attempt identified a signer, and returns false with an error
\* whenever the last attempt identified none, also when the engine reported
\* no error: the error is then 'signer is empty'.
C11_NoSignerIsFailure ==
    vpc = "returned" =>
        /\ (vret.ok /\ vret.err = ErrNil) => LastAttempt.signer # NilEntity
        /\ vret.ok => vret.err = ErrNil
        /\ LastAttempt.signer = NilEntity =>
              /\ ~vret.ok
              /\ vret.err # ErrNil
              /\ LastAttempt.err = ErrNil => vret.err = ErrSignerEmpty

\* the retry reported no error but identified no signer, and verification
\* failed with 'signer is empty'
C11_Witness ==
    /\ vpc = "returned"
    /\ Len(attempts) = 2
    /\ LastAttempt.signer = NilEntity
    /\ LastAttempt.err = ErrNil
    /\ vret = [ok |-> FALSE, err |-> ErrSignerEmpty]

\* the plaintext an attempt's engine call finds left in origText
AttemptText(a) == SubSeq(origText, a.textPos + 1, Len(origText))

\* the armored signature an attempt's engine call finds left in
\* signatureReader
AttemptSignature(a) == SubSeq(ArmoredSignature, a.sigPos + 1, Len(ArmoredSignature))

\* C22: when verifySignature retries after an expired verdict, the second
\* attempt checks the same signature against the same complete plaintext as
\* the first: the signature input and the plaintext input are both read from
\* their beginning on the retry.
C22_RetryReadsFromStart ==
    Len(attempts) = 2 =>
        /\ AttemptSignature(attempts[1]) = ArmoredSignature
        /\ AttemptSignature(attempts[2]) = ArmoredSignature
        /\ AttemptText(attempts[1]) = origText
        /\ AttemptText(attempts[2]) = origText

\* the part of C22 the code keeps: the retry reads the signature from its
\* beginning
RetryRereadsSignature ==
    Len(attempts) = 2 =>
        /\ AttemptSignature(attempts[2]) = AttemptSignature(attempts[1])
        /\ AttemptSignature(attempts[2]) = ArmoredSignature
        /\ AttemptText(attempts[1]) = origText

(***************************************************************************)
(* Detached-signature encryption composition (crypto/encryption_core.go).  *)
(***************************************************************************)
NoSessionKey == "nil"

NilKeyRing == "nil"

NilPassword == "nil"

NilWriter == "nil"

\* identities of the SessionKey objects: the one the caller pre-set on the
\* handle and the one generateSessionKey allocates
KeyIds == {"preset", "generated"}

Unallocated == [Key |-> "unallocated", Algo |-> "", v6 |-> FALSE]

\* the key bytes after clearMem
Zeroed == "zeroed"

\* SessionKey.Clear(): zeroes the key bytes in place

Clear(sk) == [sk EXCEPT !.Key = Zeroed]

\* session keys a caller may have pre-set on the handle
PresetSessionKeys ==
    {[Key |-> "secretP", Algo |-> "aes256", v6 |-> FALSE],
     [Key |-> "secretP", Algo |-> "aes128", v6 |-> FALSE],
     [Key |-> "secretP", Algo |-> "unknown", v6 |-> FALSE],
     [Key |-> "secretP", Algo |-> "aes256", v6 |-> TRUE],
     [Key |-> "secretP", Algo |-> "aes128", v6 |-> TRUE]}

\* the profile's cipher for message encryption and its compression algorithm
ProfileCipher == "aes256"

ProfileCompression == "zlib"

CompressionNone == "none"

\* generateSessionKey(configInput): a fresh random key for the profile's
\* cipher, or a failure
GenerateOutcomes ==
    {[err |-> ErrNil, sk |-> [Key |-> "secretG", Algo |-> ProfileCipher, v6 |-> FALSE]],
     [err |-> "gopenpgp: unsupported cipher", sk |-> Unallocated]}

\* signing keyrings a handle is configured with for a detached signature
SignKeyRings == {"unlockedRing", "lockedRing"}

ErrLocked == "gopenpgp: cannot sign message, unable to unlock signer key"

ErrNoKeyMaterial == "openpgp: no key material to encrypt"

\* handles the builder can produce for a detached-signature encryption
Handles ==
    [SessionKey : {NoSessionKey, "preset"},
     SignKeyRing : SignKeyRings,
     Recipients : {NilKeyRing, "recipients"},
     HiddenRecipients : {NilKeyRing, "hidden"},
     Password : {NilPassword, "password"},
     Compression : BOOLEAN]

\* what reaches a sink: a tagged packet fragment
Token(t, v) == [t |-> t, v |-> v]

KeyPacket(kind) == Token("keyPacket", <<kind>>)

EncHeader(cipher) == Token("seipdHeader", <<cipher>>)

Enc(x) == Token("enc", x)

EncTrailer == Token("mdc", << >>)

\* a detached signature by the ring's signing key over data
SignaturePacket(ring, data) == <<"sig", ring>> \o data

\* plaintext bytes a caller writes
Bytes == {"a", "b"}

\* a stage of the composed writer that has not been built
NoStage == [built |-> FALSE, open |-> FALSE, recv |-> << >>, key |-> NoSessionKey,
            chain |-> << >>, signer |-> NilKeyRing]

NoEncReturn == [writer |-> FALSE, err |-> ErrNil]

(***************************************************************************)
(* prepareEncryptAndSign, lines 68-97: the derived configuration and the   *)
(* inline signer.                                                          *)
(***************************************************************************)
prepareEncryptAndSign(h) ==
    LET compression == IF h.Compression THEN ProfileCompression ELSE CompressionNone
        config == [DefaultCipher |-> ProfileCipher, Compression |-> compression]
    IN  IF h.SignKeyRing # NilKeyRing
        THEN IF h.SignKeyRing = "lockedRing"
             THEN [config |-> config, signEntity |-> NilEntity, err |-> ErrLocked]
             ELSE [config |-> config, signEntity |-> h.SignKeyRing, err |-> ErrNil]
        ELSE [config |-> config, signEntity |-> NilEntity, err |-> ErrNil]

\* SessionKey.GetCipherFunc
GetCipherFunc(sk) ==
    IF sk.Algo = "unknown"
    THEN [cipher |-> "", err |-> "gopenpgp: unsupported cipher function"]
    ELSE [cipher |-> sk.Algo, err |-> ErrNil]

\* faulty variant: the profile's cipher is used whatever the session key says
ProfileCipherAlways(sk, config) == config.DefaultCipher

\* lines 200-205 and 209: the cipher of the symmetric-encryption packet
SessionKeyCipher(sk, config) ==
    IF ~sk.v6 THEN GetCipherFunc(sk).cipher ELSE config.DefaultCipher

\* engine failures the helper can meet while it builds its stages
HelperFailures == {"none", "encrypt", "compress", "sign", "literal"}

HelperResult(e, op, chain, sgn, wrote) ==
    [err |-> e, failed |-> op, chain |-> chain, signer |-> sgn, wrote |-> wrote]

\* faulty variant: the compression stage is never created
NoCompressionStage(algo) == <<"encrypt">>

\* lines 207-225: the encryption stage, and over it the compression stage when
\* the Config selects an algorithm
LowerStages(algo) ==
    IF algo # CompressionNone THEN <<"compress", "encrypt">> ELSE <<"encrypt">>

\* encryptStreamWithSessionKeyHelper, lines 191-248.  chain lists the stages
\* from the one the caller writes into down to the encryption stage; wrote
\* is what the construction itself sent to dataPacketWriter.
encryptStreamWithSessionKeyHelper(h, sk, fail) ==
    LET prep == prepareEncryptAndSign(h)
        cf == GetCipherFunc(sk)
        cipher == SessionKeyCipher(sk, prep.config)
        algo == prep.config.Compression
        lower == LowerStages(algo)
    IN  IF prep.err # ErrNil
        THEN HelperResult(prep.err, "", << >>, NilEntity, << >>)
        ELSE IF ~sk.v6 /\ cf.err # ErrNil
        THEN HelperResult("gopenpgp: unable to encrypt with session key", "",
                          << >>, NilEntity, << >>)
        ELSE IF fail = "encrypt"
        THEN HelperResult("gopenpgp: unable to encrypt", "SerializeSymmetricallyEncrypted",
                          << >>, NilEntity, << >>)
        ELSE IF algo # CompressionNone /\ fail = "compress"
        THEN HelperResult("gopenpgp: error in compression", "SerializeCompressed",
                          << >>, NilEntity, <<EncHeader(cipher)>>)
        ELSE IF prep.signEntity # NilEntity
        THEN IF fail = "sign"
             THEN HelperResult("gopenpgp: unable to sign", "SignWithParams",
                               << >>, NilEntity, <<EncHeader(cipher)>>)
             ELSE HelperResult(ErrNil, "", <<"sign">> \o lower, prep.signEntity,
                               <<EncHeader(cipher)>>)
        ELSE IF fail = "literal"
             THEN HelperResult("gopenpgp: unable to serialize", "SerializeLiteral",
                               << >>, NilEntity, <<EncHeader(cipher)>>)
             ELSE HelperResult(ErrNil, "", <<"literal">> \o lower, NilEntity,
                               <<EncHeader(cipher), Enc(<<"literalHeader">>)>>)

\* encryptStreamWithSessionKey, lines 171-189: the plaintext writer over the
\* helper's chain
encryptStreamWithSessionKey(h, keyId, sk, fail) ==
    LET r == encryptStreamWithSessionKeyHelper(h, sk, fail)
    IN  [err |-> r.err,
         failed |-> r.failed,
         wrote |-> r.wrote,
         stage |-> IF r.err # ErrNil THEN NoStage
                   ELSE [built |-> TRUE, open |-> TRUE, recv |-> << >>, key |-> keyId,
                         chain |-> r.chain, signer |-> r.signer]]

\* signMessageDetachedWriter: the detached signing stage for the ring, which
\* must hold an unlocked signing key
SignerFailures == {"none", "sign"}

signMessageDetachedWriter(ring, fail) ==
    IF ring = NilKeyRing \/ ring = "lockedRing"
    THEN [err |-> ErrLocked, failed |-> "", stage |-> NoStage]
    ELSE IF fail = "sign"
    THEN [err |-> "gopenpgp: unable to sign", failed |-> "DetachSignWriter",
          stage |-> NoStage]
    ELSE [err |-> ErrNil, failed |-> "",
          stage |-> [built |-> TRUE, open |-> TRUE, recv |-> << >>,
                     key |-> NoSessionKey, chain |-> <<"detachedSign">>,
                     signer |-> ring]]

\* encryptSessionKeyToWriter / encryptSessionKeyWithPasswordToWriter: the
\* key packet, or a failure that wrote nothing
KeyPacketFailures == {"none", "keyPacket"}

\* faulty variant: the final else is lost, the password branch is taken without a
\* password
KeyMaterialBranchNoElse(h) ==
    IF h.Recipients # NilKeyRing \/ h.HiddenRecipients # NilKeyRing THEN "recipients"
    ELSE "password"

\* lines 340-359: which branch protects the session key
KeyMaterialBranch(h) ==
    IF h.Recipients # NilKeyRing \/ h.HiddenRecipients # NilKeyRing THEN "recipients"
    ELSE IF h.Password # NilPassword THEN "password"
    ELSE "none"

\* faulty variant: the deferred function of lines 280-282 leaves the field as it is
KeepCurrentSigner(saved, current) == current

\* lines 280-282: the deferred function puts the saved keyring back
DeferredSignKeyRing(saved, current) == saved

\* faulty variant: no deferred function is registered
ReturnWithoutDefer(registered) == "returned"

\* faulty variant: the deferred function is registered outside the `if` of line 324,
\* for a pre-set key too
DeferForEveryKey(registered) == "line329"

\* where control goes when encryptSignDetachedStreamToRecipients returns:
\* through the deferred function of lines 329-332 when it was registered
AfterReturn(registered) == IF registered THEN "line329" ELSE "returned"

\* lines 340-359: the error of the branch taken and the key packet it writes
EncryptSessionKey(h, fail) ==
    LET branch == KeyMaterialBranch(h)
    IN  IF branch = "none"
        THEN [err |-> ErrNoKeyMaterial, failed |-> "", wrote |-> << >>]
        ELSE IF fail = "keyPacket"
        THEN [err |-> "gopenpgp: unable to encrypt session key",
              failed |-> "SerializeEncryptedKey", wrote |-> << >>]
        ELSE [err |-> ErrNil, failed |-> "",
              wrote |-> <<KeyPacket(IF branch = "recipients" THEN "pkesk" ELSE "skesk")>>]

(***************************************************************************)
(* The composed writer: its three stages and the two sinks they write to.  *)
(***************************************************************************)
Composed(ct, sigenc, sign, data, sig, log, e) ==
    [ct |-> ct, sigenc |-> sigenc, sign |-> sign, dataSink |-> data, sigSink |-> sig,
     log |-> log, err |-> e]

\* Write on an encryption pipeline: the bytes leave encrypted on its sink
CiphertextWrite(w, b, fail) ==
    IF fail = "ptToCiphertextWriter" \/ ~w.ct.open
    THEN [w EXCEPT !.err = "write: ptToCiphertextWriter"]
    ELSE [w EXCEPT !.ct.recv = Append(@, b), !.dataSink = Append(@, Enc(<<b>>))]

\* Write on the detached signing stage: the bytes are hashed
SignerWrite(w, b, fail) ==
    IF fail = "ptToEncSigWriter" \/ ~w.sign.open
    THEN [w EXCEPT !.err = "write: ptToEncSigWriter"]
    ELSE [w EXCEPT !.sign.recv = Append(@, b)]

\* faulty variant: the plaintext is forwarded to the ciphertext pipeline only
WriteCiphertextOnly(w, b, fail) == CiphertextWrite(w, b, fail)

\* encryptSignDetachedWriter.Write, lines 257-259, over
\* io.MultiWriter(ptToCiphertextWriter, ptToEncSigWriter) of line 311: each
\* writer in turn, stopping at the first error
encryptSignDetachedWriterWrite(w, b, fail) ==
    LET w1 == CiphertextWrite(w, b, fail)
    IN  IF w1.err # ErrNil THEN w1 ELSE SignerWrite(w1, b, fail)

\* Close of one stage.  Closing the signing stage emits the signature into
\* sigToCiphertextWriter, which must still be open to take it.
CloseStage(w, name, fail) ==
    IF name \in fail
    THEN [w EXCEPT !.err = "close: " \o name]
    ELSE IF name = "ptToCiphertextWriter"
    THEN [w EXCEPT !.ct.open = FALSE,
                   !.dataSink = Append(@, EncTrailer),
                   !.log = Append(@, name)]
    ELSE IF name = "ptToEncSigWriter"
    THEN IF ~w.sigenc.open
         THEN [w EXCEPT !.err = "write: sigToCiphertextWriter is closed"]
         ELSE LET sig == SignaturePacket(w.sign.signer, w.sign.recv)
              IN  [w EXCEPT !.sign.open = FALSE,
                             !.sigenc.recv = Append(@, sig),
                             !.sigSink = Append(@, Enc(sig)),
                             !.log = Append(@, name)]
    ELSE [w EXCEPT !.sigenc.open = FALSE,
                   !.sigSink = Append(@, EncTrailer),
                   !.log = Append(@, name)]

\* faulty variant: the encryption stage of the signature pipeline is closed before
\* the signing stage
CloseSigningStageLast(w, fail) ==
    LET w1 == CloseStage(w, "ptToCiphertextWriter", fail)
    IN  IF w1.err # ErrNil THEN w1
        ELSE LET w2 == CloseStage(w1, "sigToCiphertextWriter", fail)
             IN  IF w2.err # ErrNil THEN w2
                 ELSE CloseStage(w2, "ptToEncSigWriter", fail)

\* faulty variant: every stage is closed whatever the earlier ones returned, and
\* the first error is returned
CloseEveryStage(w, fail) ==
    LET w1 == CloseStage(w, "ptToCiphertextWriter", fail)
        w2 == CloseStage([w1 EXCEPT !.err = ErrNil], "ptToEncSigWriter", fail)
        w3 == CloseStage([w2 EXCEPT !.err = ErrNil], "sigToCiphertextWriter", fail)
    IN  [w3 EXCEPT !.err = IF w1.err # ErrNil THEN w1.err
                           ELSE IF w2.err # ErrNil THEN w2.err ELSE w3.err]

\* encryptSignDetachedWriter.Close, lines 261-269
encryptSignDetachedWriterClose(w, fail) ==
    LET w1 == CloseStage(w, "ptToCiphertextWriter", fail)
    IN  IF w1.err # ErrNil THEN w1
        ELSE LET w2 == CloseStage(w1, "ptToEncSigWriter", fail)
             IN  IF w2.err # ErrNil THEN w2
                 ELSE CloseStage(w2, "sigToCiphertextWriter", fail)

WriteFailures == {"none", "ptToCiphertextWriter", "ptToEncSigWriter"}

\* the stages whose Close fails
CloseFailures == SUBSET {"ptToCiphertextWriter", "ptToEncSigWriter",
                         "sigToCiphertextWriter"}

sinkVars == <<keySink, dataSink, sigSink>>

stageVars == <<ptToCiphertextWriter, sigToCiphertextWriter, ptToEncSigWriter>>

writerVars == <<written, nwrites, writeFailed, closeLog, closeRet>>

NoKeys == [k \in KeyIds |-> Unallocated]

\* encryptSignDetachedStreamToRecipients, lines 315-333, on a handle the
\* builder produced and fresh sinks
EncryptSignDetachedToRecipientsCall ==
    /\ epc = "idle"
    /\ \E h \in Handles, kw \in {NilWriter, "keySink"}, psk \in PresetSessionKeys,
          g \in GenerateOutcomes :
          /\ eh0' = h
          /\ keyPacketWriter' = kw
          /\ IF h.SessionKey = NoSessionKey
             THEN IF g.err # ErrNil
                  THEN /\ eh' = h
                       /\ sessionKeys' = NoKeys
                       /\ generated' = FALSE
                       /\ callErr' = g.err
                       /\ eret' = [writer |-> FALSE, err |-> g.err]
                       /\ epc' = "returned"
                  ELSE /\ eh' = [h EXCEPT !.SessionKey = "generated"]
                       /\ sessionKeys' = [NoKeys EXCEPT !["generated"] = g.sk]
                       /\ generated' = TRUE
                       /\ callErr' = ErrNil
                       /\ eret' = NoEncReturn
                       /\ epc' = "line334"
             ELSE /\ eh' = h
                  /\ sessionKeys' = [NoKeys EXCEPT !["preset"] = psk]
                  /\ generated' = FALSE
                  /\ callErr' = ErrNil
                  /\ eret' = NoEncReturn
                  /\ epc' = "line334"
    /\ failedOp' = ""
    /\ UNCHANGED <<sinkVars, signKeyRing, stageVars, writerVars>>
    /\ UNCHANGED <<xvars, vvars, svars, pvars, ivars>>

\* faulty variant: without a dedicated sink the key packets go to the ciphertext
\* sink only
KeyPacketsToDataSinkOnly(kw) ==
    IF kw = NilWriter THEN {"dataSink"} ELSE {"keySink"}

\* lines 334-338: the sinks behind keyPacketWriter, io.MultiWriter over the
\* two other sinks when the caller gave none
KeyPacketSinks(kw) ==
    IF kw = NilWriter THEN {"dataSink", "sigSink"} ELSE {"keySink"}

\* lines 334-363: the key packets, straight to the dedicated sink or fanned
\* into both other sinks
EncryptSessionKeyToWriters ==
    /\ epc = "line334"
    /\ \E f \in KeyPacketFailures :
          LET r == EncryptSessionKey(eh, f)
          IN  /\ callErr' = r.err
              /\ failedOp' = r.failed
              /\ LET to == KeyPacketSinks(keyPacketWriter)
                 IN  /\ dataSink' = IF "dataSink" \in to THEN dataSink \o r.wrote
                                                           ELSE dataSink
                     /\ sigSink' = IF "sigSink" \in to THEN sigSink \o r.wrote
                                                         ELSE sigSink
                     /\ keySink' = IF "keySink" \in to THEN keySink \o r.wrote
                                                         ELSE keySink
              /\ IF r.err # ErrNil
                 THEN /\ eret' = [writer |-> FALSE, err |-> r.err]
                      /\ epc' = AfterReturn(generated)
                 ELSE /\ eret' = eret
                      /\ epc' = "line278"
    /\ UNCHANGED <<eh, eh0, sessionKeys, keyPacketWriter, generated, signKeyRing,
                   stageVars, writerVars>>
    /\ UNCHANGED <<xvars, vvars, svars, pvars, ivars>>

\* faulty variant: the handle keeps its signing keyring while the pipelines are
\* built
InlineSignerKept(ring) == ring

\* line 279: the handle's signing keyring while the two encryption pipelines
\* are built
InlineSignerWhileBuilding(ring) == NilKeyRing

\* encryptSignDetachedStreamWithSessionKey, lines 278-282
DetachedSaveSigner ==
    /\ epc = "line278"
    /\ signKeyRing' = eh.SignKeyRing
    /\ eh' = [eh EXCEPT !.SignKeyRing = InlineSignerWhileBuilding(@)]
    /\ epc' = "line284"
    /\ UNCHANGED <<eh0, sessionKeys, keyPacketWriter, sinkVars, generated, stageVars,
                   callErr, eret, writerVars, failedOp>>
    /\ UNCHANGED <<xvars, vvars, svars, pvars, ivars>>

\* lines 284-287
DetachedBuildCiphertextWriter ==
    /\ epc = "line284"
    /\ \E f \in HelperFailures :
          LET r == encryptStreamWithSessionKey(eh, eh.SessionKey,
                                               sessionKeys[eh.SessionKey], f)
          IN  /\ ptToCiphertextWriter' = r.stage
              /\ dataSink' = dataSink \o r.wrote
              /\ callErr' = r.err
              /\ failedOp' = r.failed
              /\ epc' = IF r.err # ErrNil THEN "line280" ELSE "line289"
    /\ UNCHANGED <<eh, eh0, sessionKeys, keyPacketWriter, keySink, sigSink, generated,
                   signKeyRing, sigToCiphertextWriter, ptToEncSigWriter, eret,
                   writerVars>>
    /\ UNCHANGED <<xvars, vvars, svars, pvars, ivars>>

\* lines 289-292
DetachedBuildSignatureCiphertextWriter ==
    /\ epc = "line289"
    /\ \E f \in HelperFailures :
          LET r == encryptStreamWithSessionKey(eh, eh.SessionKey,
                                               sessionKeys[eh.SessionKey], f)
          IN  /\ sigToCiphertextWriter' = r.stage
              /\ sigSink' = sigSink \o r.wrote
              /\ callErr' = r.err
              /\ failedOp' = r.failed
              /\ epc' = IF r.err # ErrNil THEN "line280" ELSE "line294"
    /\ UNCHANGED <<eh, eh0, sessionKeys, keyPacketWriter, keySink, dataSink, generated,
                   signKeyRing, ptToCiphertextWriter, ptToEncSigWriter, eret,
                   writerVars>>
    /\ UNCHANGED <<xvars, vvars, svars, pvars, ivars>>

\* lines 294-312
DetachedBuildSigner ==
    /\ epc = "line294"
    /\ \E f \in SignerFailures :
          LET r == signMessageDetachedWriter(signKeyRing, f)
          IN  /\ ptToEncSigWriter' = r.stage
              /\ callErr' = r.err
              /\ failedOp' = r.failed
    /\ epc' = "line280"
    /\ UNCHANGED <<eh, eh0, sessionKeys, keyPacketWriter, sinkVars, generated,
                   signKeyRing, ptToCiphertextWriter, sigToCiphertextWriter, eret,
                   writerVars>>
    /\ UNCHANGED <<xvars, vvars, svars, pvars, ivars>>

\* the deferred function of lines 280-282 runs as the call returns
DetachedRestoreSigner ==
    /\ epc = "line280"
    /\ eh' = [eh EXCEPT !.SignKeyRing = DeferredSignKeyRing(signKeyRing, @)]
    /\ epc' = "line370"
    /\ UNCHANGED <<eh0, sessionKeys, keyPacketWriter, sinkVars, generated, signKeyRing,
                   stageVars, callErr, eret, writerVars, failedOp>>
    /\ UNCHANGED <<xvars, vvars, svars, pvars, ivars>>

\* lines 370-373
ToRecipientsReturn ==
    /\ epc = "line370"
    /\ eret' = [writer |-> callErr = ErrNil, err |-> callErr]
    /\ epc' = AfterReturn(generated)
    /\ UNCHANGED <<eh, eh0, sessionKeys, keyPacketWriter, sinkVars, generated,
                   signKeyRing, stageVars, callErr, writerVars, failedOp>>
    /\ UNCHANGED <<xvars, vvars, svars, pvars, ivars>>

\* the deferred function of lines 329-332
DeferredClearSessionKey ==
    /\ epc = "line329"
    /\ sessionKeys' = [sessionKeys EXCEPT ![eh.SessionKey] = Clear(@)]
    /\ eh' = [eh EXCEPT !.SessionKey = NoSessionKey]
    /\ epc' = "returned"
    /\ UNCHANGED <<eh0, keyPacketWriter, sinkVars, generated, signKeyRing, stageVars,
                   callErr, eret, writerVars, failedOp>>
    /\ UNCHANGED <<xvars, vvars, svars, pvars, ivars>>

\* the caller writes one byte to the returned writer
DetachedWrite ==
    /\ epc = "returned"
    /\ eret.writer
    /\ closeRet = "none"
    /\ nwrites < MaxWrites
    /\ \E b \in Bytes, f \in WriteFailures :
          LET w == encryptSignDetachedWriterWrite(
                       Composed(ptToCiphertextWriter, sigToCiphertextWriter,
                                ptToEncSigWriter, dataSink, sigSink, closeLog, ErrNil),
                       b, f)
          IN  /\ ptToCiphertextWriter' = w.ct
              /\ ptToEncSigWriter' = w.sign
              /\ dataSink' = w.dataSink
              /\ written' = IF w.err = ErrNil THEN Append(written, b) ELSE written
              /\ writeFailed' = (writeFailed \/ w.err # ErrNil)
    /\ nwrites' = nwrites + 1
    /\ UNCHANGED <<epc, eh, eh0, sessionKeys, keyPacketWriter, keySink, sigSink,
                   generated, signKeyRing, sigToCiphertextWriter, callErr, eret,
                   closeLog, closeRet, failedOp>>
    /\ UNCHANGED <<xvars, vvars, svars, pvars, ivars>>

\* the caller closes the returned writer
DetachedClose ==
    /\ epc = "returned"
    /\ eret.writer
    /\ closeRet = "none"
    /\ \E f \in CloseFailures :
          LET w == encryptSignDetachedWriterClose(
                       Composed(ptToCiphertextWriter, sigToCiphertextWriter,
                                ptToEncSigWriter, dataSink, sigSink, closeLog, ErrNil),
                       f)
          IN  /\ ptToCiphertextWriter' = w.ct
              /\ sigToCiphertextWriter' = w.sigenc
              /\ ptToEncSigWriter' = w.sign
              /\ dataSink' = w.dataSink
              /\ sigSink' = w.sigSink
              /\ closeLog' = w.log
              /\ closeRet' = w.err
    /\ UNCHANGED <<epc, eh, eh0, sessionKeys, keyPacketWriter, keySink, generated,
                   signKeyRing, callErr, eret, written, nwrites, writeFailed,
                   failedOp>>
    /\ UNCHANGED <<xvars, vvars, svars, pvars, ivars>>

InitDetached ==
    /\ epc = "idle"
    /\ eh = [SessionKey |-> NoSessionKey, SignKeyRing |-> "unlockedRing",
             Recipients |-> NilKeyRing, HiddenRecipients |-> NilKeyRing,
             Password |-> NilPassword, Compression |-> FALSE]
    /\ eh0 = eh
    /\ sessionKeys = NoKeys
    /\ keyPacketWriter = NilWriter
    /\ keySink = << >>
    /\ dataSink = << >>
    /\ sigSink = << >>
    /\ generated = FALSE
    /\ signKeyRing = NilKeyRing
    /\ ptToCiphertextWriter = NoStage
    /\ sigToCiphertextWriter = NoStage
    /\ ptToEncSigWriter = NoStage
    /\ callErr = ErrNil
    /\ eret = NoEncReturn
    /\ written = << >>
    /\ nwrites = 0
    /\ writeFailed = FALSE
    /\ closeLog = << >>
    /\ closeRet = "none"
    /\ failedOp = ""

\* the caller is done with the result; handle, sinks and writer are dropped
DetachedDone ==
    /\ epc = "returned"
    /\ ~eret.writer \/ closeRet # "none"
    /\ epc' = "idle"
    /\ eh' = [SessionKey |-> NoSessionKey, SignKeyRing |-> "unlockedRing",
              Recipients |-> NilKeyRing, HiddenRecipients |-> NilKeyRing,
              Password |-> NilPassword, Compression |-> FALSE]
    /\ eh0' = eh'
    /\ sessionKeys' = NoKeys
    /\ keyPacketWriter' = NilWriter
    /\ keySink' = << >>
    /\ dataSink' = << >>
    /\ sigSink' = << >>
    /\ generated' = FALSE
    /\ signKeyRing' = NilKeyRing
    /\ ptToCiphertextWriter' = NoStage
    /\ sigToCiphertextWriter' = NoStage
    /\ ptToEncSigWriter' = NoStage
    /\ callErr' = ErrNil
    /\ eret' = NoEncReturn
    /\ written' = << >>
    /\ nwrites' = 0
    /\ writeFailed' = FALSE
    /\ closeLog' = << >>
    /\ closeRet' = "none"
    /\ failedOp' = ""
    /\ UNCHANGED <<xvars, vvars, svars, pvars, ivars>>

NextDetached ==
    \/ EncryptSignDetachedToRecipientsCall
    \/ EncryptSessionKeyToWriters
    \/ DetachedSaveSigner
    \/ DetachedBuildCiphertextWriter
    \/ DetachedBuildSignatureCiphertextWriter
    \/ DetachedBuildSigner
    \/ DetachedRestoreSigner
    \/ ToRecipientsReturn
    \/ DeferredClearSessionKey
    \/ DetachedWrite
    \/ DetachedClose
    \/ DetachedDone

(***************************************************************************)
(* Claims about the detached-signature composition                         *)
(***************************************************************************)
IsPrefix(s, t) == Len(s) <= Len(t) /\ s = SubSeq(t, 1, Len(s))

\* the detached signature over what the caller wrote, by the configured ring
ExpectedSignature == SignaturePacket(eh0.SignKeyRing, written)

\* C3: closing the writer of the detached-signature composition closes, when
\* no stage fails, the ciphertext pipeline first, then the signature
\* pipeline's data-encryption stage, and the signing stage last.
C3_CloseOrderAsStated ==
    closeRet = ErrNil =>
        closeLog = <<"ptToCiphertextWriter", "sigToCiphertextWriter", "ptToEncSigWriter">>

\* C3 (amended): closing the writer of the detached-signature composition
\* closes the ciphertext pipeline first, then the signing stage, and the
\* signature pipeline's data-encryption stage last; the stages closed are
\* always a prefix of that order, and all three when Close returns nil.
C3_CloseOrder ==
    /\ IsPrefix(closeLog,
                <<"ptToCiphertextWriter", "ptToEncSigWriter", "sigToCiphertextWriter">>)
    /\ closeRet = ErrNil => Len(closeLog) = 3

\* a writer that took two bytes was closed without error
C3_Witness ==
    /\ closeRet = ErrNil
    /\ written = <<"a", "b">>
    /\ ~ptToCiphertextWriter.open
    /\ ~ptToEncSigWriter.open
    /\ ~sigToCiphertextWriter.open

\* C4: after any sequence of successful writes the ciphertext pipeline and
\* the signing stage have received the same bytes, the ones written; when
\* the signing stage is closed its signature covers every byte written, and
\* it is written into the signature pipeline's encryption stage while that
\* stage is open (it precedes the stage's trailer on the signature sink).
C4_FanOutAndCompleteSignature ==
    /\ (epc = "returned" /\ eret.writer /\ ~writeFailed) =>
          /\ ptToCiphertextWriter.recv = written
          /\ ptToEncSigWriter.recv = written
    /\ (epc = "returned" /\ eret.writer) => ptToEncSigWriter.recv = written
    /\ closeRet = ErrNil => ~ptToEncSigWriter.open
    /\ (eret.writer /\ ~ptToEncSigWriter.open) =>
          /\ sigToCiphertextWriter.recv = <<ExpectedSignature>>
          /\ \E i \in 1..Len(sigSink) :
                /\ sigSink[i] = Enc(ExpectedSignature)
                /\ \A j \in 1..i : sigSink[j] # EncTrailer

\* the signing stage was closed after the caller wrote two bytes
C4_Witness ==
    /\ eret.writer
    /\ ~ptToEncSigWriter.open
    /\ written = <<"b", "a">>
    /\ sigToCiphertextWriter.recv = <<SignaturePacket("unlockedRing", <<"b", "a">>)>>

\* C5: the session key shared by the two pipelines is not cleared before the
\* writer returned by encryptSignDetachedStreamToRecipients has been closed.
C5_KeyLiveUntilClose ==
    (epc = "returned" /\ eret.writer /\ closeRet = "none") =>
        /\ sessionKeys[ptToCiphertextWriter.key].Key # Zeroed
        /\ sessionKeys[sigToCiphertextWriter.key].Key # Zeroed

\* generateSessionKey succeeded in this call
KeyWasGenerated == sessionKeys["generated"] # Unallocated

\* C6: when the call had no pre-set session key and generation succeeded,
\* the generated key is cleared and removed from the handle once the call has
\* returned, on every exit path.
C6_GeneratedKeyCleared ==
    (epc = "returned" /\ eh0.SessionKey = NoSessionKey /\ KeyWasGenerated) =>
        /\ eh.SessionKey = NoSessionKey
        /\ sessionKeys["generated"].Key = Zeroed

\* the call failed while building the detached pipelines and the generated
\* key is cleared
C6_Witness ==
    /\ epc = "returned"
    /\ KeyWasGenerated
    /\ ptToCiphertextWriter.built
    /\ ~sigToCiphertextWriter.built
    /\ eret.err = "gopenpgp: unable to serialize"
    /\ sessionKeys["generated"].Key = Zeroed

\* C7: the handle's signing keyring is nil only while
\* encryptSignDetachedStreamWithSessionKey runs; once it has returned, with
\* or without an error, the keyring is the one configured before the call.
C7_SignerRestored ==
    /\ epc \in {"line284", "line289", "line294", "line280"} =>
          eh.SignKeyRing = NilKeyRing
    /\ epc \in {"line334", "line278", "line370", "line329", "returned"} =>
          eh.SignKeyRing = eh0.SignKeyRing

\* the call failed at its third construction step and the keyring is back
C7_Witness ==
    /\ epc = "line370"
    /\ callErr = ErrLocked
    /\ sigToCiphertextWriter.built
    /\ signKeyRing = "lockedRing"
    /\ eh.SignKeyRing = "lockedRing"

\* the key packet the call writes for its handle
KeyPacketOf(h) ==
    KeyPacket(IF KeyMaterialBranch(h) = "recipients" THEN "pkesk" ELSE "skesk")

\* the sink holds nothing, or the key packet followed by no other key packet
KeyPacketIsPrefix(sink, kp) ==
    sink # << >> =>
        /\ sink[1] = kp
        /\ \A i \in 2..Len(sink) : sink[i].t # "keyPacket"

NoKeyPacketIn(sink) == \A i \in 1..Len(sink) : sink[i].t # "keyPacket"

\* C18: in encryptSignDetachedStreamToRecipients the key packet is written
\* before any ciphertext or encrypted-signature byte; without a dedicated
\* key-packet sink the same key packet is the prefix of the ciphertext sink
\* and of the signature sink; with a dedicated sink the key packet goes to it
\* alone and neither other sink receives one.
C18_KeyPacketPrefix ==
    LET kp == KeyPacketOf(eh0)
        passed334 == dataSink # << >> \/ sigSink # << >> \/ epc = "line278"
    IN  /\ keyPacketWriter = NilWriter =>
              /\ keySink = << >>
              /\ KeyPacketIsPrefix(dataSink, kp)
              /\ KeyPacketIsPrefix(sigSink, kp)
              /\ passed334 => (dataSink # << >> /\ sigSink # << >>)
        /\ keyPacketWriter # NilWriter =>
              /\ NoKeyPacketIn(dataSink)
              /\ NoKeyPacketIn(sigSink)
              /\ keySink \in {<< >>, <<kp>>}
              /\ passed334 => keySink = <<kp>>

\* a call without a dedicated sink has written, was closed, and both sinks
\* start with the key packet for the recipients
C18_Witness ==
    /\ keyPacketWriter = NilWriter
    /\ closeRet = ErrNil
    /\ written # << >>
    /\ dataSink[1] = KeyPacket("pkesk")
    /\ sigSink[1] = KeyPacket("pkesk")
    /\ Len(dataSink) > 2
    /\ Len(sigSink) > 2

\* a call with a dedicated sink was closed: the key packet is on that sink
\* and the other two hold ciphertext
C18_WitnessDedicated ==
    /\ keyPacketWriter # NilWriter
    /\ closeRet = ErrNil
    /\ keySink = <<KeyPacket("skesk")>>
    /\ dataSink # << >>
    /\ sigSink # << >>

\* the stages of a pipeline that sign
SigningStages(stage) ==
    {i \in 1..Len(stage.chain) : stage.chain[i] \in {"sign", "detachedSign"}}

\* an encryption pipeline without a signing stage
PureEncryption(stage) ==
    stage.built =>
        /\ SigningStages(stage) = {}
        /\ stage.signer = NilEntity
        /\ stage.chain[Len(stage.chain)] = "encrypt"

\* C19: within one detached-composition call, also when the handle has a
\* signing keyring, neither encryption pipeline built by
\* encryptSignDetachedStreamWithSessionKey has an inline signing stage, and
\* the result has exactly one signing stage, the detached one, which signs
\* with the keyring configured on the handle before the call.
C19_OneDetachedSigner ==
    /\ PureEncryption(ptToCiphertextWriter)
    /\ PureEncryption(sigToCiphertextWriter)
    /\ ptToEncSigWriter.built =>
          /\ ptToEncSigWriter.chain = <<"detachedSign">>
          /\ ptToEncSigWriter.signer = eh0.SignKeyRing
          /\ ptToEncSigWriter.signer # NilKeyRing
    /\ (epc = "returned" /\ eret.writer) =>
          /\ ptToCiphertextWriter.built
          /\ sigToCiphertextWriter.built
          /\ ptToEncSigWriter.built
          /\ Cardinality(SigningStages(ptToCiphertextWriter))
               + Cardinality(SigningStages(sigToCiphertextWriter))
               + Cardinality(SigningStages(ptToEncSigWriter)) = 1

\* a handle with a signing keyring and compression returned a writer
C19_Witness ==
    /\ epc = "returned"
    /\ eret.writer
    /\ eh0.SignKeyRing = "unlockedRing"
    /\ eh0.Compression
    /\ ptToCiphertextWriter.chain = <<"literal", "compress", "encrypt">>
    /\ sigToCiphertextWriter.chain = <<"literal", "compress", "encrypt">>
    /\ ptToEncSigWriter.signer = "unlockedRing"

NoKeyMaterial(h) ==
    /\ h.Recipients = NilKeyRing
    /\ h.HiddenRecipients = NilKeyRing
    /\ h.Password = NilPassword

\* C8: with no recipients, no hidden recipients, no password and no
\* pre-supplied session key the call returns the 'no key material' error and
\* no writer, and no byte is written to any of the three sinks.
C8_NoKeyMaterialAlways ==
    (epc = "returned" /\ NoKeyMaterial(eh0) /\ eh0.SessionKey = NoSessionKey) =>
        /\ eret.err = ErrNoKeyMaterial
        /\ ~eret.writer
        /\ keySink = << >> /\ dataSink = << >> /\ sigSink = << >>

\* C8 (amended): with no recipients, no hidden recipients, no password and
\* no pre-supplied session key the call returns no writer and writes no byte
\* to any of the three sinks; the error is the 'no key material' error when
\* session-key generation succeeded, and the error of generateSessionKey
\* when it failed.
C8_NoKeyMaterial ==
    (epc = "returned" /\ NoKeyMaterial(eh0) /\ eh0.SessionKey = NoSessionKey) =>
        /\ eret.err = IF KeyWasGenerated THEN ErrNoKeyMaterial ELSE callErr
        /\ eret.err # ErrNil
        /\ ~KeyWasGenerated => eret.err = "gopenpgp: unsupported cipher"
        /\ ~eret.writer
        /\ ~ptToCiphertextWriter.built
        /\ ~sigToCiphertextWriter.built
        /\ ~ptToEncSigWriter.built
        /\ keySink = << >> /\ dataSink = << >> /\ sigSink = << >>

\* the call on a handle without key material returned 'no key material'
C8_Witness ==
    /\ epc = "returned"
    /\ NoKeyMaterial(eh0)
    /\ eh0.SessionKey = NoSessionKey
    /\ eret.err = ErrNoKeyMaterial
    /\ keyPacketWriter = NilWriter

(***************************************************************************)
(* Inline encryption (encryptStream, encryptStreamWithPassword,            *)
(* encryptStreamWithSessionKey called on their own), the writer of the     *)
(* session-key path, and detached signing (crypto/sign_detached.go).       *)
(***************************************************************************)
\* handles the builder can produce for an inline encryption; SessionKey
\* holds the key itself, Unallocated for nil
StreamHandles ==
    [SessionKey : {Unallocated} \cup PresetSessionKeys,
     SignKeyRing : {NilKeyRing} \cup SignKeyRings,
     Recipients : {NilKeyRing, "recipients"},
     HiddenRecipients : {NilKeyRing, "hidden"},
     Password : {NilPassword, "password"},
     Compression : BOOLEAN]

StreamResult(e, op, stage, keyWrote, dataWrote) ==
    [err |-> e, failed |-> op, stage |-> stage, keyWrote |-> keyWrote,
     dataWrote |-> dataWrote]

\* the writer openpgp.EncryptWithParams / SymmetricallyEncryptWithParams
\* returns
EngineWriter(name, signEntity) ==
    [built |-> TRUE, open |-> TRUE, recv |-> << >>, key |-> NoSessionKey,
     chain |-> <<name>>, signer |-> signEntity]

\* failures of the engine's combined encrypt+sign call
EncryptFailures == {"none", "engine"}

\* encryptStream, lines 99-133
encryptStream(h, fail) ==
    LET prep == prepareEncryptAndSign(h)
    IN  IF prep.err # ErrNil
        THEN StreamResult(prep.err, "", NoStage, << >>, << >>)
        ELSE IF fail = "engine"
        THEN StreamResult("gopenpgp: error in encrypting asymmetrically",
                          "EncryptWithParams", NoStage, << >>, << >>)
        ELSE StreamResult(ErrNil, "", EngineWriter("EncryptWithParams", prep.signEntity),
                          <<KeyPacket("pkesk")>>,
                          <<EncHeader(prep.config.DefaultCipher)>>)

\* encryptStreamWithPassword, lines 135-169
encryptStreamWithPassword(h, fail) ==
    LET prep == prepareEncryptAndSign(h)
    IN  IF prep.err # ErrNil
        THEN StreamResult(prep.err, "", NoStage, << >>, << >>)
        ELSE IF fail = "engine"
        THEN StreamResult("gopenpgp: error in encrypting asymmetrically",
                          "SymmetricallyEncryptWithParams", NoStage, << >>, << >>)
        ELSE StreamResult(ErrNil, "",
                          EngineWriter("SymmetricallyEncryptWithParams", prep.signEntity),
                          <<KeyPacket("skesk")>>,
                          <<EncHeader(prep.config.DefaultCipher)>>)

(***************************************************************************)
(* The writer encryptStreamWithSessionKey returns (lines 183-187): a       *)
(* signAndEncryptWriteCloser over the helper's chain when there is a       *)
(* signer, the chain's outermost writer otherwise.                         *)
(***************************************************************************)
Inline(stage, sink, log, entry, e) ==
    [stage |-> stage, sink |-> sink, log |-> log, entry |-> entry, err |-> e]

\* position of a stage in the chain, 0 when it is not part of it
StageIndex(chain, name) ==
    IF \E i \in 1..Len(chain) : chain[i] = name
    THEN CHOOSE i \in 1..Len(chain) : chain[i] = name
    ELSE 0

\* some stage the named one writes into has been closed
DownstreamClosed(w, name) ==
    \E i \in 1..Len(w.log) :
        StageIndex(w.stage.chain, w.log[i]) > StageIndex(w.stage.chain, name)

Closed(w, name) == \E i \in 1..Len(w.log) : w.log[i] = name

\* Write on one stage of the chain: the bytes pass through the stages below
\* it and leave encrypted on the sink
StageWrite(w, name, b, fail) ==
    IF fail = "write" \/ Closed(w, name) \/ DownstreamClosed(w, name)
    THEN [w EXCEPT !.err = "write: " \o name]
    ELSE [w EXCEPT !.stage.recv = IF name = Head(w.stage.chain) THEN Append(@, b) ELSE @,
                   !.sink = Append(@, Enc(<<b>>)),
                   !.entry = Append(@, name)]

\* faulty variant: the plaintext is written past the signing stage
WriteToEncryptWriter(w, b, fail) == StageWrite(w, w.stage.chain[2], b, fail)

\* signAndEncryptWriteCloser.Write, lines 57-59
signAndEncryptWriteCloserWrite(w, b, fail) == StageWrite(w, "sign", b, fail)

\* Write on the plainMessageWriter of lines 183-187
plainMessageWriterWrite(w, b, fail) ==
    IF w.stage.signer # NilEntity
    THEN signAndEncryptWriteCloserWrite(w, b, fail)
    ELSE StageWrite(w, Head(w.stage.chain), b, fail)

\* Close of one stage of the chain.  The signing stage emits the signature
\* packet and the compression stage its trailer into the stage below, which
\* must still be open; the encryption stage writes its trailer to the sink.
CloseInlineStage(w, name, fail) ==
    IF name \in fail
    THEN [w EXCEPT !.err = "close: " \o name]
    ELSE IF Closed(w, name) \/ DownstreamClosed(w, name)
    THEN [w EXCEPT !.err = "close: " \o name \o " writes to a closed writer"]
    ELSE IF name = "sign"
    THEN [w EXCEPT !.sink = Append(@, Enc(SignaturePacket(w.stage.signer, w.stage.recv))),
                   !.log = Append(@, name)]
    ELSE IF name = "compress"
    THEN [w EXCEPT !.sink = Append(@, Enc(<<"compressTrailer">>)),
                   !.log = Append(@, name)]
    ELSE IF name = "encrypt"
    THEN [w EXCEPT !.sink = Append(@, EncTrailer), !.log = Append(@, name)]
    ELSE [w EXCEPT !.log = Append(@, name)]

\* Close of a writer of the engine that wraps others (lines 207-247): the
\* stage itself, then the writer it was built over
RECURSIVE CloseNested(_, _, _)
CloseNested(w, stages, fail) ==
    IF stages = << >> THEN w
    ELSE LET w1 == CloseInlineStage(w, Head(stages), fail)
         IN  IF w1.err # ErrNil THEN w1 ELSE CloseNested(w1, Tail(stages), fail)

\* faulty variant: encryptWriter is closed before signWriter
CloseEncryptWriterFirst(w, fail) ==
    LET w1 == CloseNested(w, Tail(w.stage.chain), fail)
    IN  IF w1.err # ErrNil THEN w1 ELSE CloseInlineStage(w1, "sign", fail)

\* signAndEncryptWriteCloser.Close, lines 61-66
signAndEncryptWriteCloserClose(w, fail) ==
    LET w1 == CloseInlineStage(w, "sign", fail)
    IN  IF w1.err # ErrNil THEN w1 ELSE CloseNested(w1, Tail(w.stage.chain), fail)

\* Close on the plainMessageWriter of lines 183-187
plainMessageWriterClose(w, fail) ==
    IF w.stage.signer # NilEntity
    THEN signAndEncryptWriteCloserClose(w, fail)
    ELSE CloseNested(w, w.stage.chain, fail)

StreamWriteFailures == {"none", "write"}

\* the stages whose Close fails
StreamCloseFailures == SUBSET {"sign", "literal", "compress", "encrypt"}

(***************************************************************************)
(* SignTextDetached and SignBinDetached, sign_detached.go lines 17-62.     *)
(***************************************************************************)
\* the private keyring and passphrase of a signing call: GetSigningEntity
\* returns the entity when the passphrase unlocks its key, nil otherwise
SigningKeys == {"unlockedRing", "lockedRing"}

GetSigningEntity(privateKey) ==
    IF privateKey = "unlockedRing" THEN privateKey ELSE NilEntity

\* texts handed to SignTextDetached; " " is trailing white space
SignTexts == {<<"a">>, <<"a", " ">>, <<"b", "a">>, << >>}

\* internal.TrimNewlines: trailing white space is dropped
RECURSIVE TrimNewlines(_)
TrimNewlines(t) ==
    IF t # << >> /\ t[Len(t)] = " " THEN TrimNewlines(SubSeq(t, 1, Len(t) - 1)) ELSE t

ArmorFailures == {"none", "engine"}

SignResult(out, e) == [out |-> out, err |-> e]

\* SignTextDetached, lines 17-40
SignTextDetached(plainText, privateKey, trim, fail) ==
    LET text == IF trim THEN TrimNewlines(plainText) ELSE plainText
        signEntity == GetSigningEntity(privateKey)
    IN  IF signEntity = NilEntity
        THEN SignResult(<< >>, "cannot sign message, signer key is not unlocked")
        ELSE IF fail = "engine"
        THEN SignResult(<< >>, "openpgp: ArmoredDetachSignText failed")
        ELSE SignResult(<<"BEGIN PGP SIGNATURE", SignaturePacket(signEntity, text),
                          "END PGP SIGNATURE">>, ErrNil)

\* SignBinDetached, lines 43-62
SignBinDetached(plainData, privateKey, fail) ==
    LET signEntity == GetSigningEntity(privateKey)
    IN  IF signEntity = NilEntity
        THEN SignResult(<< >>, "cannot sign message, singer key is not unlocked")
        ELSE IF fail = "engine"
        THEN SignResult(<< >>, "openpgp: ArmoredDetachSign failed")
        ELSE SignResult(<<"BEGIN PGP SIGNATURE", SignaturePacket(signEntity, plainData),
                          "END PGP SIGNATURE">>, ErrNil)

NoStreamReturn == [writer |-> FALSE, out |-> << >>, err |-> ErrNil]

NoHandle == [SessionKey |-> Unallocated, SignKeyRing |-> NilKeyRing,
             Recipients |-> NilKeyRing, HiddenRecipients |-> NilKeyRing,
             Password |-> NilPassword, Compression |-> FALSE]

swriterVars == <<sentry, swritten, snwrites, scloseLog, scloseRet>>

\* an encryption entry point ran on handle h and returned r
StreamReturn(mode, h, r) ==
    /\ smode' = mode
    /\ sh' = h
    /\ sKeySink' = sKeySink \o r.keyWrote
    /\ sDataSink' = sDataSink \o r.dataWrote
    /\ swriter' = r.stage
    /\ sret' = [writer |-> r.err = ErrNil, out |-> << >>, err |-> r.err]
    /\ sfailedOp' = r.failed
    /\ spc' = "returned"
    /\ UNCHANGED swriterVars
    /\ UNCHANGED <<xvars, vvars, evars, pvars, ivars>>

\* encryptStream on a handle with recipients
EncryptStreamCall ==
    /\ spc = "idle"
    /\ \E h \in StreamHandles, f \in EncryptFailures :
          /\ h.Recipients # NilKeyRing \/ h.HiddenRecipients # NilKeyRing
          /\ StreamReturn("encryptStream", h, encryptStream(h, f))

\* encryptStreamWithPassword on a handle with a password
EncryptStreamWithPasswordCall ==
    /\ spc = "idle"
    /\ \E h \in StreamHandles, f \in EncryptFailures :
          /\ h.Password # NilPassword
          /\ StreamReturn("encryptStreamWithPassword", h, encryptStreamWithPassword(h, f))

\* encryptStreamWithSessionKey on a handle with a pre-supplied session key
EncryptStreamWithSessionKeyCall ==
    /\ spc = "idle"
    /\ \E h \in StreamHandles, f \in HelperFailures :
          /\ h.SessionKey # Unallocated
          /\ LET r == encryptStreamWithSessionKey(h, "preset", h.SessionKey, f)
             IN  StreamReturn("encryptStreamWithSessionKey", h,
                              StreamResult(r.err, r.failed, r.stage, << >>, r.wrote))

\* a detached signing entry point returned r
SignReturn(mode, privateKey, r) ==
    /\ smode' = mode
    /\ sh' = [NoHandle EXCEPT !.SignKeyRing = privateKey]
    /\ sret' = [writer |-> FALSE, out |-> r.out, err |-> r.err]
    /\ spc' = "returned"
    /\ UNCHANGED <<sKeySink, sDataSink, swriter, sfailedOp, swriterVars>>
    /\ UNCHANGED <<xvars, vvars, evars, pvars, ivars>>

SignTextDetachedCall ==
    /\ spc = "idle"
    /\ \E plainText \in SignTexts, privateKey \in SigningKeys, trim \in BOOLEAN,
          f \in ArmorFailures :
          SignReturn("SignTextDetached", privateKey,
                     SignTextDetached(plainText, privateKey, trim, f))

SignBinDetachedCall ==
    /\ spc = "idle"
    /\ \E plainData \in SignTexts, privateKey \in SigningKeys, f \in ArmorFailures :
          SignReturn("SignBinDetached", privateKey,
                     SignBinDetached(plainData, privateKey, f))

\* the caller writes one byte to the writer of the session-key path
StreamWrite ==
    /\ spc = "returned"
    /\ smode = "encryptStreamWithSessionKey"
    /\ sret.writer
    /\ scloseRet = "none"
    /\ snwrites < MaxWrites
    /\ \E b \in Bytes, f \in StreamWriteFailures :
          LET w == plainMessageWriterWrite(
                       Inline(swriter, sDataSink, scloseLog, sentry, ErrNil), b, f)
          IN  /\ swriter' = w.stage
              /\ sDataSink' = w.sink
              /\ sentry' = w.entry
              /\ swritten' = IF w.err = ErrNil THEN Append(swritten, b) ELSE swritten
    /\ snwrites' = snwrites + 1
    /\ UNCHANGED <<spc, smode, sh, sKeySink, sret, sfailedOp, scloseLog, scloseRet>>
    /\ UNCHANGED <<xvars, vvars, evars, pvars, ivars>>

\* the caller closes the writer of the session-key path
StreamClose ==
    /\ spc = "returned"
    /\ smode = "encryptStreamWithSessionKey"
    /\ sret.writer
    /\ scloseRet = "none"
    /\ \E f \in StreamCloseFailures :
          LET w == plainMessageWriterClose(
                       Inline(swriter, sDataSink, scloseLog, sentry, ErrNil), f)
          IN  /\ swriter' = w.stage
              /\ sDataSink' = w.sink
              /\ scloseLog' = w.log
              /\ scloseRet' = w.err
    /\ UNCHANGED <<spc, smode, sh, sKeySink, sret, sfailedOp, sentry, swritten,
                   snwrites>>
    /\ UNCHANGED <<xvars, vvars, evars, pvars, ivars>>

InitStream ==
    /\ spc = "idle"
    /\ smode = "none"
    /\ sh = NoHandle
    /\ sKeySink = << >>
    /\ sDataSink = << >>
    /\ swriter = NoStage
    /\ sret = NoStreamReturn
    /\ sfailedOp = ""
    /\ sentry = << >>
    /\ swritten = << >>
    /\ snwrites = 0
    /\ scloseLog = << >>
    /\ scloseRet = "none"

\* the caller is done with the result; handle, sinks and writer are dropped
StreamDone ==
    /\ spc = "returned"
    /\ spc' = "idle"
    /\ smode' = "none"
    /\ sh' = NoHandle
    /\ sKeySink' = << >>
    /\ sDataSink' = << >>
    /\ swriter' = NoStage
    /\ sret' = NoStreamReturn
    /\ sfailedOp' = ""
    /\ sentry' = << >>
    /\ swritten' = << >>
    /\ snwrites' = 0
    /\ scloseLog' = << >>
    /\ scloseRet' = "none"
    /\ UNCHANGED <<xvars, vvars, evars, pvars, ivars>>

NextStream ==
    \/ EncryptStreamCall
    \/ EncryptStreamWithPasswordCall
    \/ EncryptStreamWithSessionKeyCall
    \/ SignTextDetachedCall
    \/ SignBinDetachedCall
    \/ StreamWrite
    \/ StreamClose
    \/ StreamDone

\* one operation at a time: the caller runs the inline operations and the
\* detached-signature composition one after the other
NextEncryption ==
    \/ (spc = "idle" /\ NextDetached)
    \/ (epc = "idle" /\ NextStream)

(***************************************************************************)
(* Profile (profile/profile.go): the Custom profile, the Config values     *)
(* its projections return, and the adjustments the encryption handle       *)
(* makes to a returned Config.                                             *)
(***************************************************************************)
\* lines 13-16
RSA == 0

Elliptic == 1

SecurityLevels == {"StandardSecurity", "HighSecurity"}

\* the nil pointer of the optional AEAD, S2K and compression parameters
NilPointer == "nil"

\* the zero value of packet.Config
ZeroConfig ==
    [DefaultHash |-> "", DefaultCipher |-> "", AEADConfig |-> NilPointer,
     S2KConfig |-> NilPointer, DefaultCompressionAlgo |-> CompressionNone,
     CompressionConfig |-> NilPointer, V6Keys |-> FALSE, Algorithm |-> "",
     RSABits |-> 0, Curve |-> "", Time |-> "nil", SignatureNotations |-> << >>]

\* lines 21-39: the profiles a PGPHandle is created with
Profiles ==
    {[Name |-> "custom", KeyAlgorithm |-> k, Hash |-> "sha256",
      CipherKeyEncryption |-> "aes128", AeadKeyEncryption |-> NilPointer,
      S2kKeyEncryption |-> "s2kKey",
      CipherEncryption |-> ProfileCipher,
      AeadEncryption |-> IF v THEN "aeadOCB" ELSE NilPointer,
      S2kEncryption |-> "s2kMsg", CompressionAlgorithm |-> ProfileCompression,
      CompressionConfiguration |-> "level6", HashSign |-> "sha512", V6 |-> v] :
          k \in {RSA, Elliptic}, v \in BOOLEAN}

NoProfile ==
    [Name |-> "", KeyAlgorithm |-> RSA, Hash |-> "", CipherKeyEncryption |-> "",
     AeadKeyEncryption |-> NilPointer, S2kKeyEncryption |-> NilPointer,
     CipherEncryption |-> "", AeadEncryption |-> NilPointer,
     S2kEncryption |-> NilPointer, CompressionAlgorithm |-> CompressionNone,
     CompressionConfiguration |-> NilPointer, HashSign |-> "", V6 |-> FALSE]

\* faulty variant: the format version is not looked at, the new identifiers are
\* used for legacy keys too
KeyGenerationConfigIgnoresFormat(p, level) ==
    LET cfg == [ZeroConfig EXCEPT !.DefaultHash = p.Hash,
                                  !.DefaultCipher = p.CipherEncryption,
                                  !.AEADConfig = p.AeadEncryption,
                                  !.DefaultCompressionAlgo = p.CompressionAlgorithm,
                                  !.CompressionConfig = p.CompressionConfiguration,
                                  !.V6Keys = p.V6]
    IN  IF p.KeyAlgorithm = RSA
        THEN [cfg EXCEPT !.Algorithm = "PubKeyAlgoRSA",
                         !.RSABits = IF level = "HighSecurity" THEN 4096 ELSE 3072]
        ELSE IF p.KeyAlgorithm = Elliptic
        THEN IF level = "HighSecurity"
             THEN [cfg EXCEPT !.Algorithm = "PubKeyAlgoEd448"]
             ELSE [cfg EXCEPT !.Algorithm = "PubKeyAlgoEd25519"]
        ELSE cfg

\* Custom.KeyGenerationConfig, lines 53-87
KeyGenerationConfig(p, level) ==
    LET cfg == [ZeroConfig EXCEPT !.DefaultHash = p.Hash,
                                  !.DefaultCipher = p.CipherEncryption,
                                  !.AEADConfig = p.AeadEncryption,
                                  !.DefaultCompressionAlgo = p.CompressionAlgorithm,
                                  !.CompressionConfig = p.CompressionConfiguration,
                                  !.V6Keys = p.V6]
    IN  IF p.KeyAlgorithm = RSA
        THEN [cfg EXCEPT !.Algorithm = "PubKeyAlgoRSA",
                         !.RSABits = IF level = "HighSecurity" THEN 4096 ELSE 3072]
        ELSE IF p.KeyAlgorithm = Elliptic
        THEN IF level = "HighSecurity"
             THEN IF cfg.V6Keys
                  THEN [cfg EXCEPT !.Algorithm = "PubKeyAlgoEd448"]
                  ELSE [cfg EXCEPT !.Algorithm = "PubKeyAlgoEdDSA", !.Curve = "Curve448"]
             ELSE IF cfg.V6Keys
                  THEN [cfg EXCEPT !.Algorithm = "PubKeyAlgoEd25519"]
                  ELSE [cfg EXCEPT !.Algorithm = "PubKeyAlgoEdDSA"]
        ELSE cfg

\* Custom.EncryptionConfig, lines 89-96
EncryptionConfig(p) ==
    [ZeroConfig EXCEPT !.DefaultHash = p.Hash,
                       !.DefaultCipher = p.CipherEncryption,
                       !.AEADConfig = p.AeadEncryption,
                       !.S2KConfig = p.S2kEncryption]

\* Custom.KeyEncryptionConfig, lines 98-105
KeyEncryptionConfig(p) ==
    [ZeroConfig EXCEPT !.DefaultHash = p.Hash,
                       !.DefaultCipher = p.CipherKeyEncryption,
                       !.AEADConfig = p.AeadKeyEncryption,
                       !.S2KConfig = p.S2kKeyEncryption]

\* Custom.SignConfig, lines 107-111
SignConfig(p) == [ZeroConfig EXCEPT !.DefaultHash = p.HashSign]

\* Custom.CompressionConfig, lines 113-118
CompressionConfig(p) ==
    [ZeroConfig EXCEPT !.CompressionConfig = p.CompressionConfiguration,
                       !.DefaultCompressionAlgo = p.CompressionAlgorithm]

\* the five projections by name
Projections ==
    {"KeyGenerationConfig", "EncryptionConfig", "KeyEncryptionConfig", "SignConfig",
     "CompressionConfig"}

Projection(fn, p, level) ==
    CASE fn = "KeyGenerationConfig" -> KeyGenerationConfig(p, level)
      [] fn = "EncryptionConfig" -> EncryptionConfig(p)
      [] fn = "KeyEncryptionConfig" -> KeyEncryptionConfig(p)
      [] fn = "SignConfig" -> SignConfig(p)
      [] fn = "CompressionConfig" -> CompressionConfig(p)

\* most Config objects alive at once
MaxConfigs == 3

\* faulty variant: a projection hands out the Config it made before, if it is still
\* alive, instead of a new one
ReuseConfig(heap, fn, level, cfg) ==
    IF \E i \in 1..Len(heap) : heap[i].site = fn /\ heap[i].level = level
    THEN [heap |-> heap,
          ptr |-> CHOOSE i \in 1..Len(heap) : heap[i].site = fn /\ heap[i].level = level]
    ELSE [heap |-> Append(heap, [site |-> fn, level |-> level, cfg |-> cfg]),
          ptr |-> Len(heap) + 1]

\* `&packet.Config{...}` of lines 54, 90, 99, 108 and 114: a new Config object,
\* which the model tags with the projection that made it
AllocConfig(heap, fn, level, cfg) ==
    [heap |-> Append(heap, [site |-> fn, level |-> level, cfg |-> cfg]),
     ptr |-> Len(heap) + 1]

\* a projection called on the profile: the heap after the call and the
\* pointer returned
CallProjection(heap, fn, p, level) ==
    AllocConfig(heap, fn, level, Projection(fn, p, level))

NoCall == [fn |-> "none", level |-> "StandardSecurity", value |-> ZeroConfig,
           by |-> "none"]

\* what the call made by `by` returned; the first call is kept
Returned(fn, level, r, by) ==
    LET call == [fn |-> fn, level |-> level, value |-> r.heap[r.ptr].cfg, by |-> by]
    IN  /\ plast' = call
        /\ pfirst' = IF pfirst = NoCall THEN call ELSE pfirst

\* crypto.PGPWithProfile, crypto.go lines 26-30
PGPWithProfile ==
    /\ ppc = "none"
    /\ \E p \in Profiles :
          /\ profile' = p
          /\ profile0' = p
    /\ ppc' = "ready"
    /\ UNCHANGED <<pconfigs, pderived, plast, pfirst>>
    /\ UNCHANGED <<xvars, vvars, evars, svars, ivars>>

\* a caller calls one projection, reads the Config and drops it
ProjectionCall(fn, level) ==
    /\ ppc = "ready"
    /\ LET r == CallProjection(pconfigs, fn, profile, level)
       IN  Returned(fn, level, r, "caller")
    /\ UNCHANGED <<ppc, profile, profile0, pconfigs, pderived>>
    /\ UNCHANGED <<xvars, vvars, evars, svars, ivars>>

KeyGenerationConfigCall ==
    \E level \in SecurityLevels : ProjectionCall("KeyGenerationConfig", level)

EncryptionConfigCall == ProjectionCall("EncryptionConfig", "StandardSecurity")

KeyEncryptionConfigCall == ProjectionCall("KeyEncryptionConfig", "StandardSecurity")

SignConfigCall == ProjectionCall("SignConfig", "StandardSecurity")

CompressionConfigCall == ProjectionCall("CompressionConfig", "StandardSecurity")

\* prepareEncryptAndSign, encryption_core.go lines 77-88: the Config the
\* handle derives for one call
PrepareEncryptAndSignConfig ==
    /\ ppc = "ready"
    /\ Len(pconfigs) + 2 <= MaxConfigs
    /\ \E compression \in BOOLEAN, context \in BOOLEAN :
          LET r1 == CallProjection(pconfigs, "EncryptionConfig", profile,
                                   "StandardSecurity")
              h1 == [r1.heap EXCEPT ![r1.ptr].cfg.Time = "eh.clock"]
              r2 == CallProjection(h1, "CompressionConfig", profile, "StandardSecurity")
              cc == r2.heap[r2.ptr].cfg
              h2 == IF compression
                    THEN [r2.heap EXCEPT
                            ![r1.ptr].cfg.DefaultCompressionAlgo = cc.DefaultCompressionAlgo,
                            ![r1.ptr].cfg.CompressionConfig = cc.CompressionConfig]
                    ELSE r2.heap
              h3 == IF context
                    THEN [h2 EXCEPT ![r1.ptr].cfg.SignatureNotations =
                                        Append(@, "notation")]
                    ELSE h2
          IN  \* the Config of line 81 is dropped when the function returns
              /\ pconfigs' = SubSeq(h3, 1, Len(h3) - 1)
              /\ pderived' = r1.ptr
              /\ Returned("EncryptionConfig", "StandardSecurity", r1, "handle")
    /\ UNCHANGED <<ppc, profile, profile0>>
    /\ UNCHANGED <<xvars, vvars, evars, svars, ivars>>

\* encryptStreamWithSessionKeyHelper, encryption_core.go lines 200-205: the
\* cipher of a legacy session key replaces the Config's
HelperCipherOverride ==
    /\ ppc = "ready"
    /\ pderived # 0
    /\ \E sk \in PresetSessionKeys :
          /\ GetCipherFunc(sk).err = ErrNil
          /\ pconfigs' = IF ~sk.v6
                         THEN [pconfigs EXCEPT ![pderived].cfg.DefaultCipher =
                                                   GetCipherFunc(sk).cipher]
                         ELSE pconfigs
    /\ pderived' = 0
    /\ UNCHANGED <<ppc, profile, profile0, plast, pfirst>>
    /\ UNCHANGED <<xvars, vvars, evars, svars, ivars>>

\* the callers drop the Config objects they hold
ReleaseConfigs ==
    /\ ppc = "ready"
    /\ pconfigs # << >>
    /\ pconfigs' = << >>
    /\ pderived' = 0
    /\ UNCHANGED <<ppc, profile, profile0, plast, pfirst>>
    /\ UNCHANGED <<xvars, vvars, evars, svars, ivars>>

InitProfile ==
    /\ ppc = "none"
    /\ profile = NoProfile
    /\ profile0 = NoProfile
    /\ pconfigs = << >>
    /\ pderived = 0
    /\ plast = NoCall
    /\ pfirst = NoCall

NextProfile ==
    \/ PGPWithProfile
    \/ KeyGenerationConfigCall
    \/ EncryptionConfigCall
    \/ KeyEncryptionConfigCall
    \/ SignConfigCall
    \/ CompressionConfigCall
    \/ PrepareEncryptAndSignConfig
    \/ HelperCipherOverride
    \/ ReleaseConfigs

(***************************************************************************)
(* Claims about the profile                                                *)
(***************************************************************************)
\* C16: KeyGenerationConfig yields, for RSA, RSA with 3072 bits at Standard
\* and 4096 bits at High; for Elliptic on the v6 format, Ed448 at High and
\* Ed25519 at Standard; for Elliptic on the legacy format, always the generic
\* EdDSA identifier, with the Curve448 parameter at High and no curve
\* override at Standard, and never the Ed448 or Ed25519 identifiers.
C16_KeyGenerationTable ==
    plast.fn = "KeyGenerationConfig" =>
        LET c == plast.value
            p == profile0
            high == plast.level = "HighSecurity"
        IN  /\ p.KeyAlgorithm = RSA =>
                  /\ c.Algorithm = "PubKeyAlgoRSA"
                  /\ c.RSABits = IF high THEN 4096 ELSE 3072
            /\ (p.KeyAlgorithm = Elliptic /\ p.V6) =>
                  /\ c.Algorithm = IF high THEN "PubKeyAlgoEd448" ELSE "PubKeyAlgoEd25519"
                  /\ c.Curve = ""
            /\ (p.KeyAlgorithm = Elliptic /\ ~p.V6) =>
                  /\ c.Algorithm = "PubKeyAlgoEdDSA"
                  /\ c.Algorithm \notin {"PubKeyAlgoEd448", "PubKeyAlgoEd25519"}
                  /\ c.Curve = IF high THEN "Curve448" ELSE ""
            /\ c.V6Keys = p.V6

\* a High-security key configuration was produced for a legacy Elliptic
\* profile
C16_Witness ==
    /\ plast.fn = "KeyGenerationConfig"
    /\ plast.level = "HighSecurity"
    /\ profile0.KeyAlgorithm = Elliptic
    /\ ~profile0.V6
    /\ plast.value.Algorithm = "PubKeyAlgoEdDSA"
    /\ plast.value.Curve = "Curve448"

\* C17: after any sequence of projection calls and of the adjustments the
\* encryption handle makes to a returned Config (time source, compression
\* settings, signature notation, cipher of the session key), every field of
\* the Profile is as it was when the handle was created, and every call of a
\* projection returns what its first call returned, the projection of the
\* Profile.
C17_ProfileNeverMutated ==
    ppc = "ready" =>
        /\ profile = profile0
        /\ profile \in Profiles
        /\ plast.fn # "none" =>
              /\ (pfirst.fn = plast.fn /\ pfirst.level = plast.level)
                    => pfirst.value = plast.value
              /\ plast.value = Projection(plast.fn, profile0, plast.level)

\* a caller called EncryptionConfig again while a Config the handle had
\* adjusted (compression, notation, cipher of the session key) was alive
C17_Witness ==
    /\ ppc = "ready"
    /\ plast.fn = "EncryptionConfig"
    /\ plast.by = "caller"
    /\ pfirst.fn = "EncryptionConfig"
    /\ pfirst.by = "handle"
    /\ Len(pconfigs) = 2
    /\ pconfigs[1].cfg.DefaultCipher = "aes128"
    /\ pconfigs[1].cfg.DefaultCompressionAlgo = ProfileCompression
    /\ pconfigs[1].cfg.SignatureNotations = <<"notation">>
    /\ pconfigs[1].cfg.Time = "eh.clock"
    /\ plast.value.DefaultCipher = ProfileCipher
    /\ plast.value.SignatureNotations = << >>

(***************************************************************************)
(* Claims about the encryption modes together                              *)
(***************************************************************************)
EncryptionModes ==
    {"encryptStream", "encryptStreamWithPassword", "encryptStreamWithSessionKey"}

SigningModes == {"SignTextDetached", "SignBinDetached"}

\* the inline modes and detached signing fail fast on a locked signing key
LockedSignerFailsFastInline ==
    /\ (spc = "returned" /\ smode \in EncryptionModes /\ sh.SignKeyRing = "lockedRing") =>
          /\ sret.err = ErrLocked
          /\ ~sret.writer
          /\ ~swriter.built
          /\ sKeySink = << >>
          /\ sDataSink = << >>
    /\ (spc = "returned" /\ smode \in SigningModes /\ sh.SignKeyRing = "lockedRing") =>
          /\ sret.err # ErrNil
          /\ sret.out = << >>

\* the detached-signature composition fails fast on a locked signing key
LockedSignerFailsFastDetached ==
    /\ (epc = "returned" /\ eh0.SignKeyRing = "lockedRing") => ~eret.writer
    /\ (epc = "returned" /\ eret.err = ErrLocked) =>
          /\ ~ptToCiphertextWriter.built
          /\ ~sigToCiphertextWriter.built
          /\ keySink = << >>
          /\ dataSink = << >>
          /\ sigSink = << >>

\* C12: a locked or otherwise unusable signing key makes the operation fail
\* before any encryption stage is created and before any byte reaches a
\* sink, in the recipients, password and session-key modes and in the
\* detached-signature composition to recipients; SignTextDetached and
\* SignBinDetached return an error and no signature when the signing entity
\* is not unlocked.
C12_LockedSignerFailsFast ==
    /\ LockedSignerFailsFastInline
    /\ LockedSignerFailsFastDetached

\* the writer of an inline-signing encryption on the session-key path
InlineSigningWriter ==
    /\ spc = "returned"
    /\ smode = "encryptStreamWithSessionKey"
    /\ sret.writer
    /\ swriter.signer # NilEntity

\* C13: closing the writer of an inline-signing encryption on the session-key
\* path finalizes the signing stage first, emitting the signature packet over
\* what was written, then the compression stage when there is one, then the
\* encryption stage; the stages closed are always a prefix of that order and
\* all of them when Close returns nil; every write enters the chain at the
\* signing stage.
C13_InlineCloseOrder ==
    InlineSigningWriter =>
        /\ swriter.chain = IF sh.Compression THEN <<"sign", "compress", "encrypt">>
                           ELSE <<"sign", "encrypt">>
        /\ IsPrefix(scloseLog, swriter.chain)
        /\ scloseRet = ErrNil => scloseLog = swriter.chain
        /\ Len(sentry) = Len(swritten)
        /\ \A i \in 1..Len(sentry) : sentry[i] = "sign"
        /\ swriter.recv = swritten
        /\ Closed([log |-> scloseLog], "sign") =>
              \E i \in 1..Len(sDataSink) :
                  /\ sDataSink[i] = Enc(SignaturePacket(sh.SignKeyRing, swritten))
                  /\ \A j \in 1..i : sDataSink[j] \notin {Enc(<<"compressTrailer">>), EncTrailer}

\* a compressing, signing writer that took two bytes was closed without error
C13_Witness ==
    /\ InlineSigningWriter
    /\ scloseRet = ErrNil
    /\ scloseLog = <<"sign", "compress", "encrypt">>
    /\ swritten = <<"a", "b">>
    /\ sentry = <<"sign", "sign">>

\* the order in which encryptSignDetachedWriter.Close closes its stages
DetachedCloseOrder ==
    <<"ptToCiphertextWriter", "ptToEncSigWriter", "sigToCiphertextWriter">>

DetachedStageOpen(name) ==
    IF name = "ptToCiphertextWriter" THEN ptToCiphertextWriter.open
    ELSE IF name = "ptToEncSigWriter" THEN ptToEncSigWriter.open
    ELSE sigToCiphertextWriter.open

\* Close failed at stage i of order: it returned that stage's error, the
\* stages before it are the ones closed, and no later stage is
StoppedAt(ret, log, order, i) ==
    /\ ret = "close: " \o order[i]
    /\ log = SubSeq(order, 1, i - 1)

\* C14: when closing a stage fails during Close of a composed writer
\* (signAndEncryptWriteCloser or encryptSignDetachedWriter), Close returns the
\* error of that stage, the first that failed, and no later stage of the
\* close order is closed.
C14_CloseStopsAtFirstFailure ==
    /\ closeRet \notin {"none", ErrNil} =>
          \E i \in 1..3 :
              /\ StoppedAt(closeRet, closeLog, DetachedCloseOrder, i)
              /\ \A j \in i..3 : DetachedStageOpen(DetachedCloseOrder[j])
    /\ closeRet = ErrNil => closeLog = DetachedCloseOrder
    /\ (InlineSigningWriter /\ scloseRet \notin {"none", ErrNil}) =>
          \E i \in 1..Len(swriter.chain) :
              StoppedAt(scloseRet, scloseLog, swriter.chain, i)
    /\ (InlineSigningWriter /\ scloseRet = ErrNil) => scloseLog = swriter.chain

\* Close of the detached composition failed at the signing stage: the
\* ciphertext pipeline is closed, the signature pipeline's encryption stage
\* is left open
C14_Witness ==
    /\ closeRet = "close: ptToEncSigWriter"
    /\ closeLog = <<"ptToCiphertextWriter">>
    /\ ~ptToCiphertextWriter.open
    /\ ptToEncSigWriter.open
    /\ sigToCiphertextWriter.open

\* the operation an engine call performs
OperationOf(call) ==
    CASE call = "EncryptWithParams" -> "asymmetric encryption"
      [] call = "SymmetricallyEncryptWithParams" -> "password encryption"
      [] call = "SerializeEncryptedKey" -> "session key encryption"
      [] call = "SerializeSymmetricallyEncrypted" -> "encryption"
      [] call = "SerializeCompressed" -> "compression"
      [] call \in {"SignWithParams", "DetachSignWriter"} -> "signing"
      [] call = "SerializeLiteral" -> "serialization"
      [] OTHER -> "no operation"

\* the operation the textual prefix of a returned error names
NamedOperation(e) ==
    CASE e = "gopenpgp: error in encrypting asymmetrically" -> "asymmetric encryption"
      [] e = "gopenpgp: unable to encrypt session key" -> "session key encryption"
      [] e = "gopenpgp: unable to encrypt" -> "encryption"
      [] e = "gopenpgp: error in compression" -> "compression"
      [] e = "gopenpgp: unable to sign" -> "signing"
      [] e = "gopenpgp: unable to serialize" -> "serialization"
      [] OTHER -> "not named"

\* the prefix names the failed operation in the inline modes
PrefixNamesOperationInline(modes) ==
    (spc = "returned" /\ smode \in modes /\ sfailedOp # "") =>
        /\ ~sret.writer
        /\ NamedOperation(sret.err) = OperationOf(sfailedOp)

\* the prefix names the failed operation in the detached composition
PrefixNamesOperationDetached ==
    (epc = "returned" /\ failedOp # "") =>
        /\ ~eret.writer
        /\ NamedOperation(eret.err) = OperationOf(failedOp)

\* C15: every engine-level failure returned while building an encryption
\* pipeline is wrapped with a textual prefix that names the operation that
\* failed, in the recipients, password and session-key modes and in the
\* detached composition.
C15_PrefixNamesOperation ==
    /\ PrefixNamesOperationInline(EncryptionModes)
    /\ PrefixNamesOperationDetached

\* the cipher C20 expects for a session key
ExpectedCipher(sk) == IF ~sk.v6 THEN sk.Algo ELSE ProfileCipher

\* the symmetric-encryption packet headers on a sink
EncHeaders(sink) == SelectSeq(sink, LAMBDA x : x.t = "seipdHeader")

\* nothing of an encryption stage is on the sink
NoCiphertextOn(sink) == \A i \in 1..Len(sink) : sink[i].t = "keyPacket"

UnmappedLegacyKey(sk) == ~sk.v6 /\ GetCipherFunc(sk).err # ErrNil

\* C20 for encryptStreamWithSessionKey
SessionKeyCipherInline ==
    (smode = "encryptStreamWithSessionKey" /\ spc = "returned") =>
        /\ swriter.built =>
              /\ sDataSink # << >>
              /\ sDataSink[1] = EncHeader(ExpectedCipher(sh.SessionKey))
              /\ Len(EncHeaders(sDataSink)) = 1
        /\ UnmappedLegacyKey(sh.SessionKey) =>
              /\ sret.err # ErrNil
              /\ ~sret.writer
              /\ ~swriter.built
              /\ sDataSink = << >>
              /\ sh.SignKeyRing # "lockedRing" =>
                    sret.err = "gopenpgp: unable to encrypt with session key"

\* C20 for the two pipelines of the detached composition, whose session key
\* is the handle's
SessionKeyCipherDetached ==
    LET sk == sessionKeys[IF eh0.SessionKey = NoSessionKey THEN "generated"
                                                           ELSE "preset"]
    IN  /\ ptToCiphertextWriter.built =>
              EncHeaders(dataSink) = <<EncHeader(ExpectedCipher(sk))>>
        /\ sigToCiphertextWriter.built =>
              EncHeaders(sigSink) = <<EncHeader(ExpectedCipher(sk))>>
        /\ (epc # "idle" /\ UnmappedLegacyKey(sk)) =>
              /\ ~ptToCiphertextWriter.built
              /\ ~sigToCiphertextWriter.built
              /\ NoCiphertextOn(dataSink)
              /\ NoCiphertextOn(sigSink)
              /\ epc = "returned" => ~eret.writer
              /\ epc \in {"line280", "line370"} =>
                    callErr = "gopenpgp: unable to encrypt with session key"

\* C20: on the pre-supplied-session-key path the symmetric-encryption packet
\* uses the session key's own cipher when the key is legacy-format and the
\* profile's default cipher when it is v6; when the legacy key's algorithm
\* maps to no cipher the call fails before any encryption stage is created
\* and before any byte is written to the data sink.
C20_SessionKeyCipher ==
    /\ SessionKeyCipherInline
    /\ SessionKeyCipherDetached

\* a legacy key whose cipher is not the profile's encrypted a stream
C20_Witness ==
    /\ smode = "encryptStreamWithSessionKey"
    /\ spc = "returned"
    /\ sret.writer
    /\ ~sh.SessionKey.v6
    /\ sh.SessionKey.Algo = "aes128"
    /\ sh.SessionKey.Algo # ProfileCipher
    /\ sDataSink[1] = EncHeader("aes128")

\* a v6 key tagged with another cipher encrypted with the profile's
C20_WitnessV6 ==
    /\ smode = "encryptStreamWithSessionKey"
    /\ sret.writer
    /\ sh.SessionKey.v6
    /\ sh.SessionKey.Algo = "aes128"
    /\ sDataSink[1] = EncHeader(ProfileCipher)

\* a legacy key with an unknown algorithm was refused
C20_WitnessUnmapped ==
    /\ smode = "encryptStreamWithSessionKey"
    /\ spc = "returned"
    /\ UnmappedLegacyKey(sh.SessionKey)
    /\ sret.err = "gopenpgp: unable to encrypt with session key"

\* the stages of a chain that take the plaintext in: inline signing or
\* literal data
TopStages(chain) == {i \in 1..Len(chain) : chain[i] \in {"sign", "literal"}}

LiteralHeaderOn(sink) == \E i \in 1..Len(sink) : sink[i] = Enc(<<"literalHeader">>)

\* C21: the chain built on the pre-supplied-session-key path has exactly one
\* of the inline signing stage and the literal-data stage: a literal-data
\* packet is serialized if and only if no signer is present, a signing stage
\* is created if and only if a signer is present; a compression stage is
\* present if and only if the derived configuration selects a compression
\* algorithm, and it sits between the signing or literal stage and the
\* encryption stage.
C21_ChainShape ==
    (smode = "encryptStreamWithSessionKey" /\ swriter.built) =>
        LET chain == swriter.chain
            hasSigner == sh.SignKeyRing # NilKeyRing
            algo == prepareEncryptAndSign(sh).config.Compression
        IN  /\ TopStages(chain) = {1}
            /\ chain[1] = "sign" <=> hasSigner
            /\ chain[1] = "literal" <=> ~hasSigner
            /\ LiteralHeaderOn(sDataSink) <=> ~hasSigner
            /\ swriter.signer # NilEntity <=> hasSigner
            /\ chain[Len(chain)] = "encrypt"
            /\ (\E i \in 1..Len(chain) : chain[i] = "compress")
                  <=> algo # CompressionNone
            /\ algo # CompressionNone =>
                  (Len(chain) = 3 /\ chain[2] = "compress")
            /\ algo = CompressionNone => Len(chain) = 2

\* a signing handle with compression built its chain on a pre-supplied key
C21_Witness ==
    /\ smode = "encryptStreamWithSessionKey"
    /\ spc = "returned"
    /\ sret.writer
    /\ sh.SignKeyRing = "unlockedRing"
    /\ sh.Compression
    /\ swriter.chain = <<"sign", "compress", "encrypt">>

\* a handle without a signer built its chain with a literal-data stage
C21_WitnessLiteral ==
    /\ smode = "encryptStreamWithSessionKey"
    /\ sret.writer
    /\ sh.SignKeyRing = NilKeyRing
    /\ swriter.chain = <<"literal", "encrypt">>
    /\ LiteralHeaderOn(sDataSink)

\* C23: when encryptSignDetachedStreamToRecipients is called with a pre-set
\* session key on the handle, on every exit path the handle's session key
\* is the same object with the same key bytes as before the call, neither
\* cleared nor removed, and no new session key is generated.
C23_PresetKeyUntouched ==
    (epc # "idle" /\ eh0.SessionKey = "preset") =>
        /\ eh.SessionKey = "preset"
        /\ sessionKeys["preset"] \in PresetSessionKeys
        /\ sessionKeys["preset"].Key = "secretP"
        /\ sessionKeys["preset"].Key # Zeroed
        /\ sessionKeys["generated"] = Unallocated
        /\ ~generated
        /\ epc # "line329"

\* a call with a pre-set key returned a writer, which was written and closed
C23_Witness ==
    /\ epc = "returned"
    /\ eh0.SessionKey = "preset"
    /\ eret.writer
    /\ written # << >>
    /\ closeRet = ErrNil
    /\ sessionKeys["preset"].Key = "secretP"

\* a call with a pre-set key failed while it built its pipelines
C23_WitnessFailed ==
    /\ epc = "returned"
    /\ eh0.SessionKey = "preset"
    /\ ptToCiphertextWriter.built
    /\ eret.err = ErrLocked
    /\ eh.SessionKey = "preset"

(***************************************************************************)
(* encryptSignDetachedStreamWithSessionKey, lines 273-313, entered by two  *)
(* callers on the same handle; each line of it is one step.                *)
(***************************************************************************)
Callers == {1, 2}

\* the session key pre-set on the shared handle
InterleavedSessionKey == [Key |-> "secretP", Algo |-> "aes256", v6 |-> FALSE]

\* handles the builder can configure for the two callers
InterleavedHandles ==
    {h \in Handles : /\ h.SessionKey = "preset"
                     /\ h.Recipients = "recipients"
                     /\ h.HiddenRecipients = NilKeyRing
                     /\ h.Password = NilPassword}

NoLocals ==
    [signKeyRing |-> NilKeyRing, ptToCiphertextWriter |-> NoStage,
     sigToCiphertextWriter |-> NoStage, ptToEncSigWriter |-> NoStage,
     err |-> ErrNil]

UnconfiguredHandle ==
    [SessionKey |-> NoSessionKey, SignKeyRing |-> "unlockedRing",
     Recipients |-> NilKeyRing, HiddenRecipients |-> NilKeyRing,
     Password |-> NilPassword, Compression |-> FALSE]

InterleavedFrame == UNCHANGED <<xvars, vvars, evars, svars, pvars>>

\* the builder configures the handle both callers will use
InterleavedConfigure ==
    /\ \A c \in Callers : ipc[c] = "idle"
    /\ ieh0.SessionKey = NoSessionKey
    /\ \E h \in InterleavedHandles :
          /\ ieh' = h
          /\ ieh0' = h
    /\ UNCHANGED <<ipc, ilocal>>
    /\ InterleavedFrame

\* a caller enters encryptSignDetachedStreamWithSessionKey
InterleavedEnter(c) ==
    /\ ipc[c] = "idle"
    /\ ieh0.SessionKey # NoSessionKey
    /\ ipc' = [ipc EXCEPT ![c] = "line278"]
    /\ ilocal' = [ilocal EXCEPT ![c] = NoLocals]
    /\ UNCHANGED <<ieh, ieh0>>
    /\ InterleavedFrame

\* line 278: signKeyRing := eh.SignKeyRing
InterleavedSaveSigner(c) ==
    /\ ipc[c] = "line278"
    /\ ilocal' = [ilocal EXCEPT ![c].signKeyRing = ieh.SignKeyRing]
    /\ ipc' = [ipc EXCEPT ![c] = "line279"]
    /\ UNCHANGED <<ieh, ieh0>>
    /\ InterleavedFrame

\* line 279: eh.SignKeyRing = nil
InterleavedClearSigner(c) ==
    /\ ipc[c] = "line279"
    /\ ieh' = [ieh EXCEPT !.SignKeyRing = InlineSignerWhileBuilding(@)]
    /\ ipc' = [ipc EXCEPT ![c] = "line284"]
    /\ UNCHANGED <<ieh0, ilocal>>
    /\ InterleavedFrame

\* lines 284-287
InterleavedBuildCiphertextWriter(c) ==
    /\ ipc[c] = "line284"
    /\ LET r == encryptStreamWithSessionKey(ieh, ieh.SessionKey,
                                            InterleavedSessionKey, "none")
       IN  /\ ilocal' = [ilocal EXCEPT ![c].ptToCiphertextWriter = r.stage,
                                       ![c].err = r.err]
           /\ ipc' = [ipc EXCEPT ![c] = IF r.err # ErrNil THEN "line280"
                                                           ELSE "line289"]
    /\ UNCHANGED <<ieh, ieh0>>
    /\ InterleavedFrame

\* lines 289-292
InterleavedBuildSignatureCiphertextWriter(c) ==
    /\ ipc[c] = "line289"
    /\ LET r == encryptStreamWithSessionKey(ieh, ieh.SessionKey,
                                            InterleavedSessionKey, "none")
       IN  /\ ilocal' = [ilocal EXCEPT ![c].sigToCiphertextWriter = r.stage,
                                       ![c].err = r.err]
           /\ ipc' = [ipc EXCEPT ![c] = IF r.err # ErrNil THEN "line280"
                                                           ELSE "line294"]
    /\ UNCHANGED <<ieh, ieh0>>
    /\ InterleavedFrame

\* lines 294-312
InterleavedBuildSigner(c) ==
    /\ ipc[c] = "line294"
    /\ LET r == signMessageDetachedWriter(ilocal[c].signKeyRing, "none")
       IN  ilocal' = [ilocal EXCEPT ![c].ptToEncSigWriter = r.stage,
                                    ![c].err = r.err]
    /\ ipc' = [ipc EXCEPT ![c] = "line280"]
    /\ UNCHANGED <<ieh, ieh0>>
    /\ InterleavedFrame

\* the deferred function of lines 280-282 runs as the caller returns
InterleavedRestoreSigner(c) ==
    /\ ipc[c] = "line280"
    /\ ieh' = [ieh EXCEPT !.SignKeyRing =
                              DeferredSignKeyRing(ilocal[c].signKeyRing, @)]
    /\ ipc' = [ipc EXCEPT ![c] = "returned"]
    /\ UNCHANGED <<ieh0, ilocal>>
    /\ InterleavedFrame

\* both callers are done; the handle is dropped
InterleavedDone ==
    /\ \A c \in Callers : ipc[c] = "returned"
    /\ ipc' = [c \in Callers |-> "idle"]
    /\ ilocal' = [c \in Callers |-> NoLocals]
    /\ ieh' = UnconfiguredHandle
    /\ ieh0' = UnconfiguredHandle
    /\ InterleavedFrame

InitInterleaved ==
    /\ ieh = UnconfiguredHandle
    /\ ieh0 = UnconfiguredHandle
    /\ ipc = [c \in Callers |-> "idle"]
    /\ ilocal = [c \in Callers |-> NoLocals]

NextInterleaved ==
    \/ InterleavedConfigure
    \/ \E c \in Callers : InterleavedEnter(c)
    \/ \E c \in Callers : InterleavedSaveSigner(c)
    \/ \E c \in Callers : InterleavedClearSigner(c)
    \/ \E c \in Callers : InterleavedBuildCiphertextWriter(c)
    \/ \E c \in Callers : InterleavedBuildSignatureCiphertextWriter(c)
    \/ \E c \in Callers : InterleavedBuildSigner(c)
    \/ \E c \in Callers : InterleavedRestoreSigner(c)
    \/ InterleavedDone

(***************************************************************************)
(* Claims about two callers on one handle                                  *)
(***************************************************************************)
\* both callers have entered and returned
BothReturned == \A c \in Callers : ipc[c] = "returned"

\* C24: when two detached-composition calls on the same handle interleave,
\* after both have returned the handle's signing keyring is the one
\* configured before either call, and each call's detached signing stage
\* uses that configured keyring.
C24_InterleavedSignerRestored ==
    /\ BothReturned => ieh.SignKeyRing = ieh0.SignKeyRing
    /\ \A c \in Callers :
          /\ ipc[c] \in {"line279", "line284", "line289", "line294", "line280",
                          "returned"} =>
                ilocal[c].signKeyRing = ieh0.SignKeyRing
          /\ ilocal[c].ptToEncSigWriter.built =>
                ilocal[c].ptToEncSigWriter.signer = ieh0.SignKeyRing

\* the part of C24 that holds: a call that runs while no other call is
\* between its lines 278 and 282 restores the configured keyring and signs
\* with it
AloneRestoresSigner ==
    \A c \in Callers :
        (ipc[c] = "returned" /\ ilocal[c].signKeyRing = ieh0.SignKeyRing
            /\ \A d \in Callers \ {c} : ipc[d] \in {"idle", "line278"}) =>
                ieh.SignKeyRing = ieh0.SignKeyRing

(***************************************************************************)
(* Initial state and specifications                                        *)
(***************************************************************************)
Init ==
    /\ InitExplicit
    /\ InitVerify
    /\ InitDetached
    /\ InitStream
    /\ InitProfile
    /\ InitInterleaved

SpecExplicit == Init /\ [][NextExplicit]_vars

SpecVerify == Init /\ [][NextVerify]_vars

SpecDetached == Init /\ [][NextDetached]_vars

SpecStream == Init /\ [][NextStream]_vars

SpecEncryption == Init /\ [][NextEncryption]_vars

SpecProfile == Init /\ [][NextProfile]_vars

SpecInterleaved == Init /\ [][NextInterleaved]_vars

=============================================================================
